---------------------------- MODULE Spec2Model ----------------------------
(***************************************************************************)
(* Jamo codec, speech-register classifier and clause/phrase ratio checks   *)
(* of blog-scrutinizer-assets (expert_scrutinizer.py, validate_ratio.py,   *)
(* one_click_main.py).                                                     *)
(*                                                                         *)
(* A Python str is modelled as a sequence of Unicode code points, so       *)
(* ord(ch) is the element itself and ''.join(result) is concatenation.     *)
(* Python indices are 0-based; a table entry t[k] is the element k + 1 of  *)
(* the sequence that models t.                                             *)
(***************************************************************************)
EXTENDS Integers, Sequences, FiniteSets, TLC

VARIABLES
  pc,           \* position of the running call
  text,         \* argument of decompose_hangul
  pos,          \* number of characters decompose_hangul's for loop has taken
  jamo_str,     \* value returned by decompose_hangul, argument of compose_jamo
  i,            \* compose_jamo: cursor
  result,       \* the result list of the running codec call
  reads,        \* indices of jamo_str read by the last loop iteration
  composed,     \* value returned by compose_jamo
  content,      \* argument of _audit_linguistic_quality
  clauses,      \* _audit_linguistic_quality: the three clause counts
  level_counts, \* _audit_linguistic_quality: level_counts
  total_endings,\* _audit_linguistic_quality: total_endings
  primary,      \* _audit_linguistic_quality: primary_name, primary_count
  errors,       \* _audit_linguistic_quality: errors
  report,       \* _audit_linguistic_quality: report
  clause_count, \* argument of validate_ratio
  phrase_count, \* argument of validate_ratio
  validation,   \* value returned by validate_ratio
  counts,       \* value returned by count_clauses
  frames,       \* the running calls of several callers, one frame each
  tables,       \* the module-level tables and constants
  verdict,      \* _validate_clause_phrase_ratio: the verdict of its report
  recount,      \* _validate_clause_phrase_ratio: the three clause counts
  vr_jamo,      \* value returned by validate_ratio.decompose_hangul
  back,         \* value returned by decompose_hangul(compose_jamo(jamo_str))
  argv,         \* validate_ratio.py: sys.argv
  exit_code,    \* validate_ratio.py: the status the process exits with
  scores,       \* auto_select_speech_register: scores
  selected,     \* value returned by auto_select_speech_register
  fs,           \* one_click_main: the directories and files it works on
  max_retries,  \* one_click_main: MAX_RETRIES
  attempt,      \* main: attempt
  cycles,       \* main: scrutiny cycles run so far
  red,          \* main: "\u274c" in report
  filename,     \* main: filename
  briefings,    \* main: tag briefings generated so far
  saved         \* main: the names save_output has written, in order

codecVars == <<text, pos, jamo_str, i, result, reads, composed>>
auditVars == <<content, clauses, level_counts, total_endings, primary,
               errors, report>>
ratioVars == <<clause_count, phrase_count, validation>>
clauseVars == <<counts>>
callVars == <<frames, tables>>
cliVars == <<argv, exit_code>>
selectVars == <<scores, selected>>
runVars == <<fs, max_retries, attempt, cycles, red, filename, briefings,
             saved>>
tailVars == <<cliVars, selectVars, runVars>>
lateVars == <<verdict, recount, vr_jamo, back, tailVars>>
moreVars == <<ratioVars, clauseVars, callVars, lateVars>>
vars == <<pc, codecVars, auditVars, moreVars>>

----------------------------------------------------------------------------
(* Bounds of the explored inputs *)

MaxLen == 3            \* longest text handed to the codec
MaxClause == 24        \* largest clause_count handed to validate_ratio
MaxPhrase == 11        \* largest phrase_count handed to validate_ratio
MaxBelow == 2          \* how far below zero the two counts go
MaxCallers == 2        \* callers that run a call at the same time
MaxPieces == 3         \* most pieces of a text handed to count_clauses
MaxMajor == 9          \* most repetitions of the first sentence of a text
MaxMinor == 1          \* most repetitions of the second sentence of a text
FirstProbe == 44030    \* single characters FirstProbe..LastProbe are decomposed
LastProbe == 55205

----------------------------------------------------------------------------
(* Jamo tables, expert_scrutinizer.py:12-14 *)

\* U+3131.. compatibility jamo, 19 onsets
CHOSUNG == <<12593, 12594, 12596, 12599, 12600, 12601, 12609, 12610, 12611,
             12613, 12614, 12615, 12616, 12617, 12618, 12619, 12620, 12621,
             12622>>

\* 21 vowels
JUNGSUNG == <<12623, 12624, 12625, 12626, 12627, 12628, 12629, 12630, 12631,
              12632, 12633, 12634, 12635, 12636, 12637, 12638, 12639, 12640,
              12641, 12642, 12643>>

\* 28 codas; entry 0 is the empty string '' (no coda), written 0 here: it is
\* never equal to a character of a text
JONGSUNG == <<0, 12593, 12594, 12595, 12596, 12597, 12598, 12599, 12601,
              12602, 12603, 12604, 12605, 12606, 12607, 12608, 12609, 12610,
              12612, 12613, 12614, 12615, 12616, 12618, 12619, 12620, 12621,
              12622>>

\* what a failed subscript yields here instead of a character (Python raises
\* IndexError)
IndexError == -1

\* t[k] of a Python list
Lookup(t, k) == IF k >= 0 /\ k < Len(t) THEN t[k + 1] ELSE IndexError

\* s[k] of a Python str
At(s, k) == IF k >= 0 /\ k < Len(s) THEN s[k + 1] ELSE IndexError

\* ch in t
InTable(ch, t) == \E k \in 1..Len(t) : t[k] = ch

\* t.index(ch), for ch in t
Index(t, ch) == CHOOSE k \in 0..(Len(t) - 1) :
                  /\ t[k + 1] = ch
                  /\ \A j \in 0..(k - 1) : t[j + 1] # ch

\* t[1:]
Slice1(t) == SubSeq(t, 2, Len(t))

\* 0xAC00 <= code <= 0xD7A3
IsSyllable(code) == 44032 <= code /\ code <= 55203

----------------------------------------------------------------------------
(* decompose_hangul, expert_scrutinizer.py:16-37 *)

\* DecomposeChar with "if jong >= 0": a placeholder unit for the empty coda
DecomposeChar_Placeholder(code) ==
  IF IsSyllable(code)
  THEN LET offset == code - 44032
           cho    == offset \div (21 * 28)
           jung   == (offset % (21 * 28)) \div 28
           jong   == offset % 28
       IN  <<Lookup(CHOSUNG, cho), Lookup(JUNGSUNG, jung)>>
             \o (IF jong >= 0 THEN <<Lookup(JONGSUNG, jong)>> ELSE <<>>)
  ELSE <<code>>

\* DecomposeChar with the vowel index taken as (offset % 588) // 21
DecomposeChar_WrongJung(code) ==
  IF IsSyllable(code)
  THEN LET offset == code - 44032
           cho    == offset \div (21 * 28)
           jung   == (offset % (21 * 28)) \div 21
           jong   == offset % 28
       IN  <<Lookup(CHOSUNG, cho), Lookup(JUNGSUNG, jung)>>
             \o (IF jong > 0 THEN <<Lookup(JONGSUNG, jong)>> ELSE <<>>)
  ELSE <<code>>

\* the body of the for loop: what one character appends to result
DecomposeChar(code) ==
  IF IsSyllable(code)
  THEN LET offset == code - 44032
           cho    == offset \div (21 * 28)
           jung   == (offset % (21 * 28)) \div 28
           jong   == offset % 28
       IN  <<Lookup(CHOSUNG, cho), Lookup(JUNGSUNG, jung)>>
             \o (IF jong > 0 THEN <<Lookup(JONGSUNG, jong)>> ELSE <<>>)
  ELSE <<code>>

RECURSIVE DecomposeFrom(_, _)
DecomposeFrom(s, k) ==
  IF k > Len(s) THEN <<>> ELSE DecomposeChar(s[k]) \o DecomposeFrom(s, k + 1)

decompose_hangul(s) == DecomposeFrom(s, 1)

----------------------------------------------------------------------------
(* compose_jamo, expert_scrutinizer.py:39-67 *)

\* ComposeIter without the look at the unit after the coda candidate
ComposeIter_NoPeek(s, c) ==
  LET char   == At(s, c)
      onset  == InTable(char, CHOSUNG)
      isSyl  == onset /\ c + 1 < Len(s) /\ InTable(At(s, c + 1), JUNGSUNG)
      c2     == c + 2
      isJong == c2 < Len(s) /\ InTable(At(s, c2), Slice1(JONGSUNG))
      peek   == c2 + 1 < Len(s) /\ InTable(At(s, c2 + 1), JUNGSUNG)
      take   == isJong
      cho    == Index(CHOSUNG, char)
      jung   == Index(JUNGSUNG, At(s, c + 1))
      jong   == IF take THEN Index(JONGSUNG, At(s, c2)) ELSE 0
      rd     == {c}
                \cup (IF onset /\ c + 1 < Len(s) THEN {c + 1} ELSE {})
                \cup (IF isSyl /\ c2 < Len(s) THEN {c2} ELSE {})
                \cup (IF isSyl /\ isJong /\ c2 + 1 < Len(s)
                        THEN {c2 + 1} ELSE {})
  IN  IF isSyl
      THEN [ out   |-> <<44032 + (cho * 21 * 28) + (jung * 28) + jong>>,
             next  |-> IF take THEN c2 + 1 ELSE c2,
             reads |-> rd ]
      ELSE [ out |-> <<char>>, next |-> c + 1, reads |-> rd ]

\* ComposeIter without the test i + 1 < len(jamo_str)
ComposeIter_Unguarded(s, c) ==
  LET char   == At(s, c)
      onset  == InTable(char, CHOSUNG)
      isSyl  == onset /\ InTable(At(s, c + 1), JUNGSUNG)
      c2     == c + 2
      isJong == c2 < Len(s) /\ InTable(At(s, c2), Slice1(JONGSUNG))
      peek   == c2 + 1 < Len(s) /\ InTable(At(s, c2 + 1), JUNGSUNG)
      take   == isJong /\ ~peek
      cho    == Index(CHOSUNG, char)
      jung   == Index(JUNGSUNG, At(s, c + 1))
      jong   == IF take THEN Index(JONGSUNG, At(s, c2)) ELSE 0
      rd     == {c}
                \cup (IF onset THEN {c + 1} ELSE {})
                \cup (IF isSyl /\ c2 < Len(s) THEN {c2} ELSE {})
                \cup (IF isSyl /\ isJong /\ c2 + 1 < Len(s)
                        THEN {c2 + 1} ELSE {})
  IN  IF isSyl
      THEN [ out   |-> <<44032 + (cho * 21 * 28) + (jung * 28) + jong>>,
             next  |-> IF take THEN c2 + 1 ELSE c2,
             reads |-> rd ]
      ELSE [ out |-> <<char>>, next |-> c + 1, reads |-> rd ]

\* ComposeIter with the vowel index weighted by 21 instead of 28
ComposeIter_WrongWeight(s, c) ==
  LET char   == At(s, c)
      onset  == InTable(char, CHOSUNG)
      isSyl  == onset /\ c + 1 < Len(s) /\ InTable(At(s, c + 1), JUNGSUNG)
      c2     == c + 2
      isJong == c2 < Len(s) /\ InTable(At(s, c2), Slice1(JONGSUNG))
      peek   == c2 + 1 < Len(s) /\ InTable(At(s, c2 + 1), JUNGSUNG)
      take   == isJong /\ ~peek
      cho    == Index(CHOSUNG, char)
      jung   == Index(JUNGSUNG, At(s, c + 1))
      jong   == IF take THEN Index(JONGSUNG, At(s, c2)) ELSE 0
      rd     == {c}
                \cup (IF onset /\ c + 1 < Len(s) THEN {c + 1} ELSE {})
                \cup (IF isSyl /\ c2 < Len(s) THEN {c2} ELSE {})
                \cup (IF isSyl /\ isJong /\ c2 + 1 < Len(s)
                        THEN {c2 + 1} ELSE {})
  IN  IF isSyl
      THEN [ out   |-> <<44032 + (cho * 21 * 28) + (jung * 21) + jong>>,
             next  |-> IF take THEN c2 + 1 ELSE c2,
             reads |-> rd ]
      ELSE [ out |-> <<char>>, next |-> c + 1, reads |-> rd ]

\* ComposeIter that steps over the coda and leaves jong at 0
ComposeIter_DropCoda(s, c) ==
  LET char   == At(s, c)
      onset  == InTable(char, CHOSUNG)
      isSyl  == onset /\ c + 1 < Len(s) /\ InTable(At(s, c + 1), JUNGSUNG)
      c2     == c + 2
      isJong == c2 < Len(s) /\ InTable(At(s, c2), Slice1(JONGSUNG))
      peek   == c2 + 1 < Len(s) /\ InTable(At(s, c2 + 1), JUNGSUNG)
      take   == isJong /\ ~peek
      cho    == Index(CHOSUNG, char)
      jung   == Index(JUNGSUNG, At(s, c + 1))
      jong   == 0
      rd     == {c}
                \cup (IF onset /\ c + 1 < Len(s) THEN {c + 1} ELSE {})
                \cup (IF isSyl /\ c2 < Len(s) THEN {c2} ELSE {})
                \cup (IF isSyl /\ isJong /\ c2 + 1 < Len(s)
                        THEN {c2 + 1} ELSE {})
  IN  IF isSyl
      THEN [ out   |-> <<44032 + (cho * 21 * 28) + (jung * 28) + jong>>,
             next  |-> IF take THEN c2 + 1 ELSE c2,
             reads |-> rd ]
      ELSE [ out |-> <<char>>, next |-> c + 1, reads |-> rd ]

\* one iteration of the while loop at cursor c: the syllable or literal it
\* appends, the cursor it leaves, and the indices of s it reads
ComposeIter(s, c) ==
  LET char   == At(s, c)
      onset  == InTable(char, CHOSUNG)
      isSyl  == onset /\ c + 1 < Len(s) /\ InTable(At(s, c + 1), JUNGSUNG)
      c2     == c + 2
      isJong == c2 < Len(s) /\ InTable(At(s, c2), Slice1(JONGSUNG))
      peek   == c2 + 1 < Len(s) /\ InTable(At(s, c2 + 1), JUNGSUNG)
      take   == isJong /\ ~peek
      cho    == Index(CHOSUNG, char)
      jung   == Index(JUNGSUNG, At(s, c + 1))
      jong   == IF take THEN Index(JONGSUNG, At(s, c2)) ELSE 0
      rd     == {c}
                \cup (IF onset /\ c + 1 < Len(s) THEN {c + 1} ELSE {})
                \cup (IF isSyl /\ c2 < Len(s) THEN {c2} ELSE {})
                \cup (IF isSyl /\ isJong /\ c2 + 1 < Len(s)
                        THEN {c2 + 1} ELSE {})
  IN  IF isSyl
      THEN [ out   |-> <<44032 + (cho * 21 * 28) + (jung * 28) + jong>>,
             next  |-> IF take THEN c2 + 1 ELSE c2,
             reads |-> rd ]
      ELSE [ out |-> <<char>>, next |-> c + 1, reads |-> rd ]

RECURSIVE ComposeFrom(_, _)
ComposeFrom(s, c) ==
  IF c < Len(s)
  THEN LET it == ComposeIter(s, c) IN it.out \o ComposeFrom(s, it.next)
  ELSE <<>>

compose_jamo(s) == ComposeFrom(s, 0)

----------------------------------------------------------------------------
(* The regular expressions the program uses, and re.findall                *)
(*                                                                         *)
(* A pattern is a sequence of atoms: an ordered alternation of literal     *)
(* strings (?:a|b|c), a character class [...], or a greedy \s*.  A literal *)
(* run is an alternation of one string; (?:a|b)? is the alternation with   *)
(* the empty string tried last.                                            *)

Alt(alts)   == [kind |-> "alt",  alts |-> alts, cls |-> {}]
Lit(str)    == Alt(<<str>>)
Opt(alts)   == Alt(alts \o << <<>> >>)
Cls(chars)  == [kind |-> "cls",  alts |-> <<>>, cls |-> chars]
Star(chars) == [kind |-> "star", alts |-> <<>>, cls |-> chars]

\* what \s matches in a str pattern
WHITESPACE == (9..13) \cup (28..32) \cup {133, 160, 5760} \cup (8192..8202)
              \cup {8232, 8233, 8239, 8287, 12288}

\* the result of a match attempt that fails
NoMatch == -1

\* str occurs in s at offset at
OccursAt(str, s, at) ==
  /\ at + Len(str) <= Len(s)
  /\ \A m \in 1..Len(str) : s[at + m] = str[m]

\* length of the run of characters of chars in s from offset at
RECURSIVE RunLength(_, _, _)
RunLength(chars, s, at) ==
  IF at < Len(s) /\ s[at + 1] \in chars
  THEN 1 + RunLength(chars, s, at + 1)
  ELSE 0

\* the backtracking matcher: the offset behind the first match of the atoms
\* k.. of p that starts at offset at, or NoMatch
RECURSIVE MatchEnd(_, _, _, _), TryAlts(_, _, _, _, _), TryStar(_, _, _, _, _)
MatchEnd(p, k, s, at) ==
  IF k > Len(p) THEN at
  ELSE CASE p[k].kind = "cls" ->
              IF at < Len(s) /\ s[at + 1] \in p[k].cls
              THEN MatchEnd(p, k + 1, s, at + 1)
              ELSE NoMatch
         [] p[k].kind = "alt" -> TryAlts(p, k, s, at, 1)
         [] p[k].kind = "star" ->
              TryStar(p, k, s, at, RunLength(p[k].cls, s, at))

\* alternatives are tried from left to right
TryAlts(p, k, s, at, j) ==
  IF j > Len(p[k].alts) THEN NoMatch
  ELSE LET e == IF OccursAt(p[k].alts[j], s, at)
                THEN MatchEnd(p, k + 1, s, at + Len(p[k].alts[j]))
                ELSE NoMatch
       IN  IF e # NoMatch THEN e ELSE TryAlts(p, k, s, at, j + 1)

\* the longest run is tried first
TryStar(p, k, s, at, n) ==
  LET e == MatchEnd(p, k + 1, s, at + n)
  IN  IF e # NoMatch THEN e
      ELSE IF n = 0 THEN NoMatch
      ELSE TryStar(p, k, s, at, n - 1)

\* re.findall(p, s): the matches from left to right, none overlapping the
\* one before it, each as <<start, end>>
RECURSIVE FindallFrom(_, _, _)
FindallFrom(p, s, from) ==
  IF from > Len(s) THEN <<>>
  ELSE LET e == MatchEnd(p, 1, s, from)
       IN  IF e = NoMatch
           THEN FindallFrom(p, s, from + 1)
           ELSE << <<from, e>> >>
                  \o FindallFrom(p, s, IF e = from THEN from + 1 ELSE e)

findall(p, s) == FindallFrom(p, s, 0)

\* s contains w ("w in s")
Contains(s, w) == \E at \in 0..(Len(s) - Len(w)) : OccursAt(w, s, at)

----------------------------------------------------------------------------
(* Pattern tables of _audit_linguistic_quality, expert_scrutinizer.py:118-421 *)

terminal_patterns ==
  << <<Lit(<<12599, 12623>>), Cls({46, 33})>>,   \* ㄷㅏ[\.!]
     <<Lit(<<12615, 12627>>), Cls({46, 33})>>,   \* ㅇㅓ[\.!]
     <<Lit(<<12615, 12623>>), Cls({46, 33})>>,   \* ㅇㅏ[\.!]
     <<Lit(<<12616, 12643>>), Cls({46, 33})>>,   \* ㅈㅣ[\.!]
     <<Lit(<<12596, 12628>>), Cls({46, 33})>>,   \* ㄴㅔ[\.!]
     <<Lit(<<12615, 12635>>), Cls({46, 33})>>,   \* ㅇㅛ[\.!]
     <<Lit(<<12596, 12643, 12599, 12623>>), Cls({46, 33})>>,   \* ㄴㅣㄷㅏ[\.!]
     <<Lit(<<12596, 12625>>), Cls({63})>>,   \* ㄴㅑ[\?]
     <<Lit(<<12596, 12643>>), Cls({63})>>,   \* ㄴㅣ[\?]
     <<Lit(<<12616, 12623>>), Cls({46, 33})>>,   \* ㅈㅏ[\.!]
     <<Lit(<<12601, 12623>>), Cls({46, 33})>> >>   \* ㄹㅏ[\.!]

\* (?:는|ㄴ|은|ㄹ|을|던)\s*(?:것|거|때|곳|이|수|줄|법|리)
embedded_pattern ==
  <<Alt(<<<<45716>>, <<12596>>, <<51008>>, <<12601>>, <<51012>>, <<45912>>>>), Star(WHITESPACE), Alt(<<<<44163>>, <<44144>>, <<46412>>, <<44275>>, <<51060>>, <<49688>>, <<51460>>, <<48277>>, <<47532>>>>)>>

\* sa-ryo-doen-da, go-chal, bon-in, ha-yeoss-eum, ui-mi-han-da, tteut-han-da
stale_words ==
  << <<49324, 47308, 46108, 45796>>, <<44256, 52272>>, <<48376, 51064>>,
     <<54616, 50688, 51020>>, <<51032, 48120, 54620, 45796>>,
     <<46907, 54620, 45796>> >>

sharp_pool ==
  << <<51109, 50501>>, <<49444, 44228>>, <<50517, 46020, 51201>>,
     <<47700, 52964, 45768, 51608>>, <<45800, 50616, 52968, 45824>>,
     <<44480, 44208>>, <<45225, 46301>>, <<50577, 49345>> >>

\* (?:ass|eoss|gess)? : the optional tense marker
TENSE_OPT == Opt(<<<<12615, 12623, 12614>>, <<12615, 12627, 12614>>, <<12593, 12628, 12614>>>>)

speech_levels ==
  << [ name |-> "haerache", level |-> 1,   \* 해라체
       jamo_patterns |-> <<
         <<TENSE_OPT, Lit(<<12599, 12623>>), Cls({92, 46, 33})>>,   \* (?:ㅇㅏㅆ|ㅇㅓㅆ|ㄱㅔㅆ)?ㄷㅏ[\\.!]
         <<TENSE_OPT, Lit(<<12596, 12641, 12596, 12599, 12623>>), Cls({92, 46, 33})>>,   \* (?:ㅇㅏㅆ|ㅇㅓㅆ|ㄱㅔㅆ)?ㄴㅡㄴㄷㅏ[\\.!]
         <<TENSE_OPT, Lit(<<12596, 12599, 12623>>), Cls({92, 46, 33})>>,   \* (?:ㅇㅏㅆ|ㅇㅓㅆ|ㄱㅔㅆ)?ㄴㄷㅏ[\\.!]
         <<TENSE_OPT, Lit(<<12599, 12627, 12601, 12623>>), Cls({92, 46, 33})>>,   \* (?:ㅇㅏㅆ|ㅇㅓㅆ|ㄱㅔㅆ)?ㄷㅓㄹㅏ[\\.!]
         <<TENSE_OPT, Lit(<<12599, 12641, 12601, 12623>>), Cls({92, 46, 33})>>,   \* (?:ㅇㅏㅆ|ㅇㅓㅆ|ㄱㅔㅆ)?ㄷㅡㄹㅏ[\\.!]
         <<TENSE_OPT, Lit(<<12601, 12623, 12596, 12599, 12623>>), Cls({92, 46, 33})>>,   \* (?:ㅇㅏㅆ|ㅇㅓㅆ|ㄱㅔㅆ)?ㄹㅏㄴㄷㅏ[\\.!]
         <<TENSE_OPT, Lit(<<12599, 12623, 12596, 12599, 12623>>), Cls({92, 46, 33})>>,   \* (?:ㅇㅏㅆ|ㅇㅓㅆ|ㄱㅔㅆ)?ㄷㅏㄴㄷㅏ[\\.!]
         <<TENSE_OPT, Lit(<<12601, 12643, 12601, 12623>>), Cls({92, 46, 33})>>,   \* (?:ㅇㅏㅆ|ㅇㅓㅆ|ㄱㅔㅆ)?ㄹㅣㄹㅏ[\\.!]
         <<TENSE_OPT, Lit(<<12593, 12636, 12596, 12623>>), Cls({92, 46, 33})>>,   \* (?:ㅇㅏㅆ|ㅇㅓㅆ|ㄱㅔㅆ)?ㄱㅜㄴㅏ[\\.!]
         <<TENSE_OPT, Lit(<<12593, 12636, 12596>>), Cls({92, 46, 33})>>,   \* (?:ㅇㅏㅆ|ㅇㅓㅆ|ㄱㅔㅆ)?ㄱㅜㄴ[\\.!]
         <<Lit(<<12610, 12631>>), TENSE_OPT, Lit(<<12599, 12623>>), Cls({92, 46, 33})>>,   \* ㅂㅗ(?:ㅇㅏㅆ|ㅇㅓㅆ|ㄱㅔㅆ)?ㄷㅏ[\\.!]
         <<Lit(<<12616, 12636>>), TENSE_OPT, Lit(<<12599, 12623>>), Cls({92, 46, 33})>>,   \* ㅈㅜ(?:ㅇㅏㅆ|ㅇㅓㅆ|ㄱㅔㅆ)?ㄷㅏ[\\.!]
         <<Lit(<<12610, 12627, 12601, 12643>>), TENSE_OPT, Lit(<<12599, 12623>>), Cls({92, 46, 33})>>,   \* ㅂㅓㄹㅣ(?:ㅇㅏㅆ|ㅇㅓㅆ|ㄱㅔㅆ)?ㄷㅏ[\\.!]
         <<Lit(<<12596, 12631, 12622>>), TENSE_OPT, Lit(<<12599, 12623>>), Cls({92, 46, 33})>>,   \* ㄴㅗㅎ(?:ㅇㅏㅆ|ㅇㅓㅆ|ㄱㅔㅆ)?ㄷㅏ[\\.!]
         <<Lit(<<12599, 12636>>), TENSE_OPT, Lit(<<12599, 12623>>), Cls({92, 46, 33})>>,   \* ㄷㅜ(?:ㅇㅏㅆ|ㅇㅓㅆ|ㄱㅔㅆ)?ㄷㅏ[\\.!]
         <<Lit(<<12593, 12623>>), TENSE_OPT, Lit(<<12599, 12623>>), Cls({92, 46, 33})>>,   \* ㄱㅏ(?:ㅇㅏㅆ|ㅇㅓㅆ|ㄱㅔㅆ)?ㄷㅏ[\\.!]
         <<Lit(<<12615, 12631>>), TENSE_OPT, Lit(<<12599, 12623>>), Cls({92, 46, 33})>>,   \* ㅇㅗ(?:ㅇㅏㅆ|ㅇㅓㅆ|ㄱㅔㅆ)?ㄷㅏ[\\.!]
         <<Lit(<<12593, 12631, 12615, 12643, 12614, 12599, 12623>>), Cls({92, 46, 33})>>,   \* ㄱㅗㅇㅣㅆㄷㅏ[\\.!]
         <<Lit(<<12593, 12631, 12613, 12643, 12621, 12599, 12623>>), Cls({92, 46, 33})>>,   \* ㄱㅗㅅㅣㅍㄷㅏ[\\.!]
         <<TENSE_OPT, Lit(<<12596, 12625>>), Cls({92, 63})>>,   \* (?:ㅇㅏㅆ|ㅇㅓㅆ|ㄱㅔㅆ)?ㄴㅑ[\\?]
         <<TENSE_OPT, Lit(<<12596, 12641, 12596, 12625>>), Cls({92, 63})>>,   \* (?:ㅇㅏㅆ|ㅇㅓㅆ|ㄱㅔㅆ)?ㄴㅡㄴㅑ[\\?]
         <<TENSE_OPT, Lit(<<12596, 12643>>), Cls({92, 63})>>,   \* (?:ㅇㅏㅆ|ㅇㅓㅆ|ㄱㅔㅆ)?ㄴㅣ[\\?]
         <<TENSE_OPT, Lit(<<12599, 12627, 12596, 12625>>), Cls({92, 63})>>,   \* (?:ㅇㅏㅆ|ㅇㅓㅆ|ㄱㅔㅆ)?ㄷㅓㄴㅑ[\\?]
         <<TENSE_OPT, Lit(<<12601, 12594, 12623>>), Cls({92, 63})>>,   \* (?:ㅇㅏㅆ|ㅇㅓㅆ|ㄱㅔㅆ)?ㄹㄲㅏ[\\?]
         <<TENSE_OPT, Lit(<<12615, 12641, 12601, 12594, 12623>>), Cls({92, 63})>>,   \* (?:ㅇㅏㅆ|ㅇㅓㅆ|ㄱㅔㅆ)?ㅇㅡㄹㄲㅏ[\\?]
         <<Lit(<<12615, 12623, 12601, 12623>>), Cls({92, 46, 33})>>,   \* ㅇㅏㄹㅏ[\\.!]
         <<Lit(<<12615, 12627, 12601, 12623>>), Cls({92, 46, 33})>>,   \* ㅇㅓㄹㅏ[\\.!]
         <<Lit(<<12615, 12629, 12601, 12623>>), Cls({92, 46, 33})>>,   \* ㅇㅕㄹㅏ[\\.!]
         <<Lit(<<12593, 12627, 12601, 12623>>), Cls({92, 46, 33})>>,   \* ㄱㅓㄹㅏ[\\.!]
         <<Lit(<<12596, 12627, 12601, 12623>>), Cls({92, 46, 33})>>,   \* ㄴㅓㄹㅏ[\\.!]
         <<Lit(<<12601, 12629, 12609>>), Cls({92, 46, 33})>>,   \* ㄹㅕㅁ[\\.!]
         <<Lit(<<12616, 12623>>), Cls({92, 46, 33})>>   \* ㅈㅏ[\\.!]
       >>,
       examples |-> <<[category |-> "declarative", endings |-> 6], [category |-> "interrogative", endings |-> 4], [category |-> "imperative", endings |-> 3], [category |-> "propositive", endings |-> 1], [category |-> "auxiliary", endings |-> 8]>> ],
     [ name |-> "haeche", level |-> 2,   \* 해체
       jamo_patterns |-> <<
         <<TENSE_OPT, Lit(<<12615, 12627>>), Cls({92, 46, 33})>>,   \* (?:ㅇㅏㅆ|ㅇㅓㅆ|ㄱㅔㅆ)?ㅇㅓ[\\.!]
         <<TENSE_OPT, Lit(<<12615, 12623>>), Cls({92, 46, 33})>>,   \* (?:ㅇㅏㅆ|ㅇㅓㅆ|ㄱㅔㅆ)?ㅇㅏ[\\.!]
         <<TENSE_OPT, Lit(<<12615, 12629>>), Cls({92, 46, 33})>>,   \* (?:ㅇㅏㅆ|ㅇㅓㅆ|ㄱㅔㅆ)?ㅇㅕ[\\.!]
         <<TENSE_OPT, Lit(<<12616, 12643>>), Cls({92, 46, 33})>>,   \* (?:ㅇㅏㅆ|ㅇㅓㅆ|ㄱㅔㅆ)?ㅈㅣ[\\.!]
         <<TENSE_OPT, Lit(<<12593, 12627, 12599, 12641, 12596>>), Cls({92, 46, 33})>>,   \* (?:ㅇㅏㅆ|ㅇㅓㅆ|ㄱㅔㅆ)?ㄱㅓㄷㅡㄴ[\\.!]
         <<TENSE_OPT, Lit(<<12596, 12628>>), Cls({92, 46, 33})>>,   \* (?:ㅇㅏㅆ|ㅇㅓㅆ|ㄱㅔㅆ)?ㄴㅔ[\\.!]
         <<TENSE_OPT, Lit(<<12596, 12641, 12596, 12599, 12628>>), Cls({92, 46, 33})>>,   \* (?:ㅇㅏㅆ|ㅇㅓㅆ|ㄱㅔㅆ)?ㄴㅡㄴㄷㅔ[\\.!]
         <<TENSE_OPT, Lit(<<12616, 12623, 12596, 12622, 12623>>), Cls({92, 46, 33})>>,   \* (?:ㅇㅏㅆ|ㅇㅓㅆ|ㄱㅔㅆ)?ㅈㅏㄴㅎㅏ[\\.!]
         <<TENSE_OPT, Lit(<<12599, 12627, 12601, 12623, 12593, 12631>>), Cls({92, 46, 33})>>,   \* (?:ㅇㅏㅆ|ㅇㅓㅆ|ㄱㅔㅆ)?ㄷㅓㄹㅏㄱㅗ[\\.!]
         <<TENSE_OPT, Lit(<<12601, 12593, 12627, 12601>>), Cls({92, 46, 33})>>,   \* (?:ㅇㅏㅆ|ㅇㅓㅆ|ㄱㅔㅆ)?ㄹㄱㅓㄹ[\\.!]
         <<TENSE_OPT, Lit(<<12601, 12593, 12628>>), Cls({92, 46, 33})>>,   \* (?:ㅇㅏㅆ|ㅇㅓㅆ|ㄱㅔㅆ)?ㄹㄱㅔ[\\.!]
         <<Lit(<<12610, 12632>>), Cls({92, 46, 33})>>,   \* ㅂㅘ[\\.!]
         <<Lit(<<12616, 12637>>), Cls({92, 46, 33})>>,   \* ㅈㅝ[\\.!]
         <<Lit(<<12610, 12627, 12601, 12629>>), Cls({92, 46, 33})>>,   \* ㅂㅓㄹㅕ[\\.!]
         <<Lit(<<12596, 12632>>), Cls({92, 46, 33})>>,   \* ㄴㅘ[\\.!]
         <<Lit(<<12599, 12637>>), Cls({92, 46, 33})>>,   \* ㄷㅝ[\\.!]
         <<Lit(<<12593, 12623>>), Cls({92, 46, 33})>>,   \* ㄱㅏ[\\.!]
         <<Lit(<<12615, 12632>>), Cls({92, 46, 33})>>,   \* ㅇㅘ[\\.!]
         <<Lit(<<12593, 12631, 12615, 12643, 12614, 12615, 12627>>), Cls({92, 46, 33})>>,   \* ㄱㅗㅇㅣㅆㅇㅓ[\\.!]
         <<Lit(<<12593, 12631, 12613, 12643, 12621, 12615, 12627>>), Cls({92, 46, 33})>>,   \* ㄱㅗㅅㅣㅍㅇㅓ[\\.!]
         <<TENSE_OPT, Lit(<<12615, 12627>>), Cls({92, 63})>>,   \* (?:ㅇㅏㅆ|ㅇㅓㅆ|ㄱㅔㅆ)?ㅇㅓ[\\?]
         <<TENSE_OPT, Lit(<<12615, 12623>>), Cls({92, 63})>>,   \* (?:ㅇㅏㅆ|ㅇㅓㅆ|ㄱㅔㅆ)?ㅇㅏ[\\?]
         <<TENSE_OPT, Lit(<<12616, 12643>>), Cls({92, 63})>>,   \* (?:ㅇㅏㅆ|ㅇㅓㅆ|ㄱㅔㅆ)?ㅈㅣ[\\?]
         <<TENSE_OPT, Lit(<<12596, 12641, 12596, 12599, 12628>>), Cls({92, 63})>>   \* (?:ㅇㅏㅆ|ㅇㅓㅆ|ㄱㅔㅆ)?ㄴㅡㄴㄷㅔ[\\?]
       >>,
       examples |-> <<[category |-> "declarative", endings |-> 9], [category |-> "interrogative", endings |-> 4], [category |-> "imperative", endings |-> 1], [category |-> "propositive", endings |-> 1], [category |-> "auxiliary", endings |-> 9]>> ],
     [ name |-> "hageche", level |-> 3,   \* 하게체
       jamo_patterns |-> <<
         <<TENSE_OPT, Lit(<<12596, 12628>>), Cls({92, 46, 33})>>,   \* (?:ㅇㅏㅆ|ㅇㅓㅆ|ㄱㅔㅆ)?ㄴㅔ[\\.!]
         <<TENSE_OPT, Lit(<<12593, 12628, 12614, 12596, 12628>>), Cls({92, 46, 33})>>,   \* (?:ㅇㅏㅆ|ㅇㅓㅆ|ㄱㅔㅆ)?ㄱㅔㅆㄴㅔ[\\.!]
         <<TENSE_OPT, Lit(<<12596, 12593, 12623>>), Cls({92, 46, 33})>>,   \* (?:ㅇㅏㅆ|ㅇㅓㅆ|ㄱㅔㅆ)?ㄴㄱㅏ[\\.!]
         <<TENSE_OPT, Lit(<<12596, 12641, 12596, 12593, 12623>>), Cls({92, 46, 33})>>,   \* (?:ㅇㅏㅆ|ㅇㅓㅆ|ㄱㅔㅆ)?ㄴㅡㄴㄱㅏ[\\.!]
         <<TENSE_OPT, Lit(<<12596, 12623>>), Cls({92, 63})>>,   \* (?:ㅇㅏㅆ|ㅇㅓㅆ|ㄱㅔㅆ)?ㄴㅏ[\\?]
         <<TENSE_OPT, Lit(<<12596, 12641, 12596, 12593, 12623>>), Cls({92, 63})>>,   \* (?:ㅇㅏㅆ|ㅇㅓㅆ|ㄱㅔㅆ)?ㄴㅡㄴㄱㅏ[\\?]
         <<TENSE_OPT, Lit(<<12599, 12627, 12596, 12593, 12623>>), Cls({92, 63})>>,   \* (?:ㅇㅏㅆ|ㅇㅓㅆ|ㄱㅔㅆ)?ㄷㅓㄴㄱㅏ[\\?]
         <<Lit(<<12593, 12628>>), Cls({92, 46, 33})>>,   \* ㄱㅔ[\\.!]
         <<Lit(<<12593, 12628, 12596, 12623>>), Cls({92, 46, 33})>>,   \* ㄱㅔㄴㅏ[\\.!]
         <<Lit(<<12613, 12628>>), Cls({92, 46, 33})>>,   \* ㅅㅔ[\\.!]
         <<Lit(<<12613, 12628, 12596, 12623>>), Cls({92, 46, 33})>>   \* ㅅㅔㄴㅏ[\\.!]
       >>,
       examples |-> <<[category |-> "declarative", endings |-> 3], [category |-> "interrogative", endings |-> 3], [category |-> "imperative", endings |-> 2], [category |-> "propositive", endings |-> 2]>> ],
     [ name |-> "haoche", level |-> 4,   \* 하오체
       jamo_patterns |-> <<
         <<TENSE_OPT, Lit(<<12615, 12631>>), Cls({92, 46, 33})>>,   \* (?:ㅇㅏㅆ|ㅇㅓㅆ|ㄱㅔㅆ)?ㅇㅗ[\\.!]
         <<TENSE_OPT, Lit(<<12613, 12631>>), Cls({92, 46, 33})>>,   \* (?:ㅇㅏㅆ|ㅇㅓㅆ|ㄱㅔㅆ)?ㅅㅗ[\\.!]
         <<TENSE_OPT, Lit(<<12601, 12643, 12615, 12631>>), Cls({92, 46, 33})>>,   \* (?:ㅇㅏㅆ|ㅇㅓㅆ|ㄱㅔㅆ)?ㄹㅣㅇㅗ[\\.!]
         <<TENSE_OPT, Lit(<<12593, 12636, 12601, 12629>>), Cls({92, 46, 33})>>,   \* (?:ㅇㅏㅆ|ㅇㅓㅆ|ㄱㅔㅆ)?ㄱㅜㄹㅕ[\\.!]
         <<TENSE_OPT, Lit(<<12615, 12631>>), Cls({92, 63})>>,   \* (?:ㅇㅏㅆ|ㅇㅓㅆ|ㄱㅔㅆ)?ㅇㅗ[\\?]
         <<TENSE_OPT, Lit(<<12613, 12631>>), Cls({92, 63})>>,   \* (?:ㅇㅏㅆ|ㅇㅓㅆ|ㄱㅔㅆ)?ㅅㅗ[\\?]
         <<Lit(<<12613, 12643, 12615, 12631>>), Cls({92, 46, 33})>>,   \* ㅅㅣㅇㅗ[\\.!]
         <<Lit(<<12610, 12613, 12643, 12599, 12623>>), Cls({92, 46, 33})>>,   \* ㅂㅅㅣㄷㅏ[\\.!]
         <<Lit(<<12622, 12623, 12610, 12613, 12643, 12599, 12623>>), Cls({92, 46, 33})>>,   \* ㅎㅏㅂㅅㅣㄷㅏ[\\.!]
         <<Lit(<<12593, 12623, 12610, 12613, 12643, 12599, 12623>>), Cls({92, 46, 33})>>,   \* ㄱㅏㅂㅅㅣㄷㅏ[\\.!]
         <<Lit(<<12610, 12631, 12610, 12613, 12643, 12599, 12623>>), Cls({92, 46, 33})>>   \* ㅂㅗㅂㅅㅣㄷㅏ[\\.!]
       >>,
       examples |-> <<[category |-> "declarative", endings |-> 4], [category |-> "interrogative", endings |-> 2], [category |-> "imperative", endings |-> 1], [category |-> "propositive", endings |-> 4]>> ],
     [ name |-> "haeyoche", level |-> 5,   \* 해요체
       jamo_patterns |-> <<
         <<TENSE_OPT, Lit(<<12615, 12627, 12615, 12635>>), Cls({92, 46, 33})>>,   \* (?:ㅇㅏㅆ|ㅇㅓㅆ|ㄱㅔㅆ)?ㅇㅓㅇㅛ[\\.!]
         <<TENSE_OPT, Lit(<<12615, 12623, 12615, 12635>>), Cls({92, 46, 33})>>,   \* (?:ㅇㅏㅆ|ㅇㅓㅆ|ㄱㅔㅆ)?ㅇㅏㅇㅛ[\\.!]
         <<TENSE_OPT, Lit(<<12615, 12629, 12615, 12635>>), Cls({92, 46, 33})>>,   \* (?:ㅇㅏㅆ|ㅇㅓㅆ|ㄱㅔㅆ)?ㅇㅕㅇㅛ[\\.!]
         <<TENSE_OPT, Lit(<<12615, 12628, 12615, 12635>>), Cls({92, 46, 33})>>,   \* (?:ㅇㅏㅆ|ㅇㅓㅆ|ㄱㅔㅆ)?ㅇㅔㅇㅛ[\\.!]
         <<TENSE_OPT, Lit(<<12615, 12630, 12615, 12635>>), Cls({92, 46, 33})>>,   \* (?:ㅇㅏㅆ|ㅇㅓㅆ|ㄱㅔㅆ)?ㅇㅖㅇㅛ[\\.!]
         <<TENSE_OPT, Lit(<<12616, 12635>>), Cls({92, 46, 33})>>,   \* (?:ㅇㅏㅆ|ㅇㅓㅆ|ㄱㅔㅆ)?ㅈㅛ[\\.!]
         <<TENSE_OPT, Lit(<<12616, 12643, 12615, 12635>>), Cls({92, 46, 33})>>,   \* (?:ㅇㅏㅆ|ㅇㅓㅆ|ㄱㅔㅆ)?ㅈㅣㅇㅛ[\\.!]
         <<TENSE_OPT, Lit(<<12596, 12628, 12615, 12635>>), Cls({92, 46, 33})>>,   \* (?:ㅇㅏㅆ|ㅇㅓㅆ|ㄱㅔㅆ)?ㄴㅔㅇㅛ[\\.!]
         <<TENSE_OPT, Lit(<<12593, 12636, 12596, 12615, 12635>>), Cls({92, 46, 33})>>,   \* (?:ㅇㅏㅆ|ㅇㅓㅆ|ㄱㅔㅆ)?ㄱㅜㄴㅇㅛ[\\.!]
         <<TENSE_OPT, Lit(<<12593, 12627, 12599, 12641, 12596, 12615, 12635>>), Cls({92, 46, 33})>>,   \* (?:ㅇㅏㅆ|ㅇㅓㅆ|ㄱㅔㅆ)?ㄱㅓㄷㅡㄴㅇㅛ[\\.!]
         <<TENSE_OPT, Lit(<<12616, 12623, 12596, 12622, 12623, 12615, 12635>>), Cls({92, 46, 33})>>,   \* (?:ㅇㅏㅆ|ㅇㅓㅆ|ㄱㅔㅆ)?ㅈㅏㄴㅎㅏㅇㅛ[\\.!]
         <<TENSE_OPT, Lit(<<12596, 12641, 12596, 12599, 12628, 12615, 12635>>), Cls({92, 46, 33})>>,   \* (?:ㅇㅏㅆ|ㅇㅓㅆ|ㄱㅔㅆ)?ㄴㅡㄴㄷㅔㅇㅛ[\\.!]
         <<TENSE_OPT, Lit(<<12601, 12593, 12628, 12615, 12635>>), Cls({92, 46, 33})>>,   \* (?:ㅇㅏㅆ|ㅇㅓㅆ|ㄱㅔㅆ)?ㄹㄱㅔㅇㅛ[\\.!]
         <<TENSE_OPT, Lit(<<12601, 12594, 12627, 12601, 12615, 12635>>), Cls({92, 46, 33})>>,   \* (?:ㅇㅏㅆ|ㅇㅓㅆ|ㄱㅔㅆ)?ㄹㄲㅓㄹㅇㅛ[\\.!]
         <<Lit(<<12610, 12632, 12615, 12635>>), Cls({92, 46, 33})>>,   \* ㅂㅘㅇㅛ[\\.!]
         <<Lit(<<12616, 12637, 12615, 12635>>), Cls({92, 46, 33})>>,   \* ㅈㅝㅇㅛ[\\.!]
         <<Lit(<<12610, 12627, 12601, 12629, 12615, 12635>>), Cls({92, 46, 33})>>,   \* ㅂㅓㄹㅕㅇㅛ[\\.!]
         <<Lit(<<12596, 12632, 12615, 12635>>), Cls({92, 46, 33})>>,   \* ㄴㅘㅇㅛ[\\.!]
         <<Lit(<<12599, 12637, 12615, 12635>>), Cls({92, 46, 33})>>,   \* ㄷㅝㅇㅛ[\\.!]
         <<Lit(<<12593, 12631, 12615, 12643, 12614, 12615, 12627, 12615, 12635>>), Cls({92, 46, 33})>>,   \* ㄱㅗㅇㅣㅆㅇㅓㅇㅛ[\\.!]
         <<Lit(<<12593, 12631, 12613, 12643, 12621, 12615, 12627, 12615, 12635>>), Cls({92, 46, 33})>>,   \* ㄱㅗㅅㅣㅍㅇㅓㅇㅛ[\\.!]
         <<TENSE_OPT, Lit(<<12615, 12627, 12615, 12635>>), Cls({92, 63})>>,   \* (?:ㅇㅏㅆ|ㅇㅓㅆ|ㄱㅔㅆ)?ㅇㅓㅇㅛ[\\?]
         <<TENSE_OPT, Lit(<<12615, 12623, 12615, 12635>>), Cls({92, 63})>>,   \* (?:ㅇㅏㅆ|ㅇㅓㅆ|ㄱㅔㅆ)?ㅇㅏㅇㅛ[\\?]
         <<TENSE_OPT, Lit(<<12616, 12635>>), Cls({92, 63})>>,   \* (?:ㅇㅏㅆ|ㅇㅓㅆ|ㄱㅔㅆ)?ㅈㅛ[\\?]
         <<TENSE_OPT, Lit(<<12596, 12623, 12615, 12635>>), Cls({92, 63})>>,   \* (?:ㅇㅏㅆ|ㅇㅓㅆ|ㄱㅔㅆ)?ㄴㅏㅇㅛ[\\?]
         <<TENSE_OPT, Lit(<<12601, 12594, 12623, 12615, 12635>>), Cls({92, 63})>>,   \* (?:ㅇㅏㅆ|ㅇㅓㅆ|ㄱㅔㅆ)?ㄹㄲㅏㅇㅛ[\\?]
         <<TENSE_OPT, Lit(<<12601, 12601, 12624, 12615, 12635>>), Cls({92, 63})>>,   \* (?:ㅇㅏㅆ|ㅇㅓㅆ|ㄱㅔㅆ)?ㄹㄹㅐㅇㅛ[\\?]
         <<Lit(<<12613, 12628, 12615, 12635>>), Cls({92, 46, 33})>>,   \* ㅅㅔㅇㅛ[\\.!]
         <<Lit(<<12616, 12636, 12613, 12628, 12615, 12635>>), Cls({92, 46, 33})>>   \* ㅈㅜㅅㅔㅇㅛ[\\.!]
       >>,
       examples |-> <<[category |-> "declarative", endings |-> 11], [category |-> "interrogative", endings |-> 5], [category |-> "imperative", endings |-> 2], [category |-> "propositive", endings |-> 2], [category |-> "auxiliary", endings |-> 7]>> ],
     [ name |-> "hasipsioche", level |-> 6,   \* 하십시오체
       jamo_patterns |-> <<
         <<TENSE_OPT, Lit(<<12613, 12641, 12610, 12596, 12643, 12599, 12623>>), Cls({92, 46, 33})>>,   \* (?:ㅇㅏㅆ|ㅇㅓㅆ|ㄱㅔㅆ)?ㅅㅡㅂㄴㅣㄷㅏ[\\.!]
         <<TENSE_OPT, Lit(<<12610, 12596, 12643, 12599, 12623>>), Cls({92, 46, 33})>>,   \* (?:ㅇㅏㅆ|ㅇㅓㅆ|ㄱㅔㅆ)?ㅂㄴㅣㄷㅏ[\\.!]
         <<TENSE_OPT, Lit(<<12615, 12631, 12610, 12596, 12643, 12599, 12623>>), Cls({92, 46, 33})>>,   \* (?:ㅇㅏㅆ|ㅇㅓㅆ|ㄱㅔㅆ)?ㅇㅗㅂㄴㅣㄷㅏ[\\.!]
         <<TENSE_OPT, Lit(<<12615, 12643, 12610, 12596, 12643, 12599, 12623>>), Cls({92, 46, 33})>>,   \* (?:ㅇㅏㅆ|ㅇㅓㅆ|ㄱㅔㅆ)?ㅇㅣㅂㄴㅣㄷㅏ[\\.!]
         <<TENSE_OPT, Lit(<<12593, 12628, 12614, 12613, 12641, 12610, 12596, 12643, 12599, 12623>>), Cls({92, 46, 33})>>,   \* (?:ㅇㅏㅆ|ㅇㅓㅆ|ㄱㅔㅆ)?ㄱㅔㅆㅅㅡㅂㄴㅣㄷㅏ[\\.!]
         <<TENSE_OPT, Lit(<<12615, 12627, 12614, 12613, 12641, 12610, 12596, 12643, 12599, 12623>>), Cls({92, 46, 33})>>,   \* (?:ㅇㅏㅆ|ㅇㅓㅆ|ㄱㅔㅆ)?ㅇㅓㅆㅅㅡㅂㄴㅣㄷㅏ[\\.!]
         <<TENSE_OPT, Lit(<<12615, 12623, 12614, 12613, 12641, 12610, 12596, 12643, 12599, 12623>>), Cls({92, 46, 33})>>,   \* (?:ㅇㅏㅆ|ㅇㅓㅆ|ㄱㅔㅆ)?ㅇㅏㅆㅅㅡㅂㄴㅣㄷㅏ[\\.!]
         <<TENSE_OPT, Lit(<<12613, 12641, 12610, 12596, 12643, 12594, 12623>>), Cls({92, 63})>>,   \* (?:ㅇㅏㅆ|ㅇㅓㅆ|ㄱㅔㅆ)?ㅅㅡㅂㄴㅣㄲㅏ[\\?]
         <<TENSE_OPT, Lit(<<12610, 12596, 12643, 12594, 12623>>), Cls({92, 63})>>,   \* (?:ㅇㅏㅆ|ㅇㅓㅆ|ㄱㅔㅆ)?ㅂㄴㅣㄲㅏ[\\?]
         <<TENSE_OPT, Lit(<<12615, 12643, 12610, 12596, 12643, 12594, 12623>>), Cls({92, 63})>>,   \* (?:ㅇㅏㅆ|ㅇㅓㅆ|ㄱㅔㅆ)?ㅇㅣㅂㄴㅣㄲㅏ[\\?]
         <<TENSE_OPT, Lit(<<12613, 12643, 12610, 12596, 12643, 12594, 12623>>), Cls({92, 63})>>,   \* (?:ㅇㅏㅆ|ㅇㅓㅆ|ㄱㅔㅆ)?ㅅㅣㅂㄴㅣㄲㅏ[\\?]
         <<Lit(<<12613, 12643, 12610, 12613, 12643, 12615, 12631>>), Cls({92, 46, 33})>>,   \* ㅅㅣㅂㅅㅣㅇㅗ[\\.!]
         <<Lit(<<12613, 12631, 12613, 12627>>), Cls({92, 46, 33})>>,   \* ㅅㅗㅅㅓ[\\.!]
         <<Lit(<<12613, 12643, 12610, 12613, 12643, 12599, 12623>>), Cls({92, 46, 33})>>   \* ㅅㅣㅂㅅㅣㄷㅏ[\\.!]
       >>,
       examples |-> <<[category |-> "declarative", endings |-> 4], [category |-> "interrogative", endings |-> 3], [category |-> "imperative", endings |-> 2], [category |-> "propositive", endings |-> 1]>> ] >>

----------------------------------------------------------------------------
(* Values of the locals of a call that has not run *)

\* primary_name is unbound until total_endings > 0 has been found
NoPrimary == [name |-> "", level |-> 0, count |-> 0]

NoClauses == [terminal |-> 0, embedded |-> 0, total |-> 0]

AuditIdle ==
  /\ content = <<>>
  /\ clauses = NoClauses
  /\ level_counts = <<>>
  /\ total_endings = 0
  /\ primary = NoPrimary
  /\ errors = 0
  /\ report = <<>>

CodecIdle ==
  /\ text = <<>>
  /\ pos = 0
  /\ jamo_str = <<>>
  /\ i = 0
  /\ result = <<>>
  /\ reads = {}
  /\ composed = <<>>

\* no call of validate_ratio yet
NoValidation ==
  [ pass |-> FALSE, ratio |-> [num |-> 0, den |-> 1],
    clause_count |-> 0, phrase_count |-> 0,
    message |-> "", action |-> [kind |-> "none", amount |-> 0] ]

RatioIdle ==
  /\ clause_count = 0
  /\ phrase_count = 0
  /\ validation = NoValidation

ClauseIdle == counts = NoClauses

\* the module-level names of validate_ratio.py and expert_scrutinizer.py:
\* the jamo tables, and TARGET_RATIO and TOLERANCE in tenths
TARGET_RATIO == 20
TOLERANCE == 3

ModuleTables ==
  [ CHOSUNG |-> CHOSUNG, JUNGSUNG |-> JUNGSUNG, JONGSUNG |-> JONGSUNG,
    TARGET_RATIO |-> TARGET_RATIO, TOLERANCE |-> TOLERANCE ]

CallIdle ==
  /\ frames = <<>>
  /\ tables = ModuleTables

\* one_click_main.py is not running
NoFiles ==
  [ input_dir |-> "missing", files |-> {}, readable |-> FALSE,
    references_dir |-> FALSE, output_dir |-> FALSE, writable |-> FALSE ]

RunIdle ==
  /\ fs = NoFiles
  /\ max_retries = 0
  /\ attempt = 0
  /\ cycles = 0
  /\ red = FALSE
  /\ filename = <<>>
  /\ briefings = 0
  /\ saved = <<>>

\* auto_select_speech_register has not returned
NoRegister == [name |-> "", level |-> 0]

\* validate_ratio.py is not running: no argument vector, no exit status
NoArgv == [argc |-> 0, html_path |-> "", phrase |-> <<>>]
NoExit == -1

\* no verdict yet
NoVerdict == [kind |-> "none yet", amount |-> 0]

LateIdle ==
  /\ verdict = NoVerdict
  /\ recount = NoClauses
  /\ vr_jamo = <<>>
  /\ back = <<>>
  /\ argv = NoArgv
  /\ exit_code = NoExit
  /\ scores = <<>>
  /\ selected = NoRegister
  /\ RunIdle

MoreIdle == RatioIdle /\ ClauseIdle /\ CallIdle /\ LateIdle

----------------------------------------------------------------------------
(* Inputs of the codec *)

\* ga, gan, na, a, gabs, tta, hih (U+D7A3); '.', '?'; the lone jamo n and a;
\* the letter 'a', and the two code points next to the syllable block
CodecChars == {44032, 44036, 45208, 50500, 44050, 46384, 55203,
               46, 63, 12596, 12623, 97, 44031, 55204}

RECURSIVE Strings(_, _)
Strings(alphabet, n) ==
  IF n = 0 THEN {<<>>}
  ELSE LET shorter == Strings(alphabet, n - 1)
       IN  shorter \cup {Append(s, ch) : s \in {t \in shorter : Len(t) = n - 1},
                                        ch \in alphabet}

CodecTexts == Strings(CodecChars, MaxLen)

\* every single character of the probe range, and the pair deo-ra
SyllableTexts == {<<c>> : c \in FirstProbe..LastProbe} \cup {<<45908, 46972>>}

----------------------------------------------------------------------------
(* A caller that decomposes a text and composes the result again *)

InitWith(texts) ==
  /\ text \in texts
  /\ pc = "start"
  /\ pos = 0
  /\ jamo_str = <<>>
  /\ i = 0
  /\ result = <<>>
  /\ reads = {}
  /\ composed = <<>>
  /\ AuditIdle
  /\ MoreIdle

\* decompose_hangul: result = []
DecomposeStart ==
  /\ pc = "start"
  /\ pc' = "decomposing"
  /\ pos' = 0
  /\ result' = <<>>
  /\ UNCHANGED <<text, jamo_str, i, reads, composed>>
  /\ UNCHANGED <<auditVars, moreVars>>

\* decompose_hangul: one pass of "for char in text"
DecomposeLoop ==
  /\ pc = "decomposing"
  /\ pos < Len(text)
  /\ result' = result \o DecomposeChar(text[pos + 1])
  /\ pos' = pos + 1
  /\ UNCHANGED <<pc, text, jamo_str, i, reads, composed>>
  /\ UNCHANGED <<auditVars, moreVars>>

\* decompose_hangul: return ''.join(result)
DecomposeReturn ==
  /\ pc = "decomposing"
  /\ pos = Len(text)
  /\ jamo_str' = result
  /\ pc' = "decomposed"
  /\ UNCHANGED <<text, pos, i, result, reads, composed>>
  /\ UNCHANGED <<auditVars, moreVars>>

\* compose_jamo: result = []; i = 0
ComposeStart ==
  /\ pc = "decomposed"
  /\ pc' = "composing"
  /\ i' = 0
  /\ result' = <<>>
  /\ reads' = {}
  /\ UNCHANGED <<text, pos, jamo_str, composed>>
  /\ UNCHANGED <<auditVars, moreVars>>

\* compose_jamo: one pass of "while i < len(jamo_str)"
ComposeLoop ==
  /\ pc = "composing"
  /\ i < Len(jamo_str)
  /\ LET it == ComposeIter(jamo_str, i)
     IN  /\ result' = result \o it.out
         /\ i' = it.next
         /\ reads' = it.reads
  /\ UNCHANGED <<pc, text, pos, jamo_str, composed>>
  /\ UNCHANGED <<auditVars, moreVars>>

\* compose_jamo: return ''.join(result)
ComposeReturn ==
  /\ pc = "composing"
  /\ ~(i < Len(jamo_str))
  /\ composed' = result
  /\ pc' = "done"
  /\ UNCHANGED <<text, pos, jamo_str, i, result, reads>>
  /\ UNCHANGED <<auditVars, moreVars>>

NextCodec ==
  \/ DecomposeStart
  \/ DecomposeLoop
  \/ DecomposeReturn
  \/ ComposeStart
  \/ ComposeLoop
  \/ ComposeReturn

InitCodec == InitWith(CodecTexts)
SpecCodec == InitCodec /\ [][NextCodec]_vars

InitSyllable == InitWith(SyllableTexts)
SpecSyllable == InitSyllable /\ [][NextCodec]_vars

----------------------------------------------------------------------------
(* _audit_linguistic_quality, expert_scrutinizer.py:97-469 *)

\* a letter of a tag name
IsLetter(ch) == ch \in (65..90) \cup (97..122)

\* '<' at element k of s opens a start tag or an end tag
TagStart(s, k) ==
  /\ s[k] = 60
  /\ k < Len(s)
  /\ \/ IsLetter(s[k + 1])
     \/ s[k + 1] = 47 /\ k + 1 < Len(s) /\ IsLetter(s[k + 2])

\* the index of the first '>' of s from element k on, 0 if there is none
RECURSIVE NextClose(_, _)
NextClose(s, k) ==
  IF k > Len(s) THEN 0 ELSE IF s[k] = 62 THEN k ELSE NextClose(s, k + 1)

\* the text nodes of s: a tag is left out up to its '>', a '<' that opens no
\* tag and a tag that is never closed are text
RECURSIVE StripFrom(_, _)
StripFrom(s, k) ==
  IF k > Len(s) THEN <<>>
  ELSE IF TagStart(s, k) /\ NextClose(s, k) # 0
       THEN StripFrom(s, NextClose(s, k) + 1)
       ELSE <<s[k]>> \o StripFrom(s, k + 1)

\* BeautifulSoup(c, 'html.parser').get_text(), for texts without quoted
\* attributes, comments and character references
get_text(c) == StripFrom(c, 1)

\* sum(len(re.findall(p, s)) for p in patterns), from pattern k on
RECURSIVE SumMatchesFrom(_, _, _)
SumMatchesFrom(patterns, s, k) ==
  IF k > Len(patterns) THEN 0
  ELSE Len(findall(patterns[k], s)) + SumMatchesFrom(patterns, s, k + 1)

\* a count of the patterns that match somewhere, not of their matches
CountMatches_Distinct(patterns, s) ==
  Cardinality({k \in 1..Len(patterns) : Len(findall(patterns[k], s)) > 0})

CountMatches(patterns, s) == SumMatchesFrom(patterns, s, 1)

\* a level count that counts each sentence ending once, whichever templates
\* of the level match it
CountLevel_Deduplicated(info, s) ==
  Cardinality(UNION { {findall(info.jamo_patterns[m], s)[j][2] :
                         j \in 1..Len(findall(info.jamo_patterns[m], s))} :
                      m \in 1..Len(info.jamo_patterns) })

\* the inner loop of the level count: count += len(re.findall(pattern, ...))
CountLevel(info, s) == SumMatchesFrom(info.jamo_patterns, s, 1)

\* level_counts, in the order of the dict speech_levels
LevelCounts(s) ==
  [k \in 1..Len(speech_levels) |->
     [ name  |-> speech_levels[k].name,
       level |-> speech_levels[k].level,
       count |-> CountLevel(speech_levels[k], s) ]]

RECURSIVE SumCountsFrom(_, _)
SumCountsFrom(lc, k) ==
  IF k > Len(lc) THEN 0 ELSE lc[k].count + SumCountsFrom(lc, k + 1)

\* sum(lc['count'] for lc in level_counts.values())
SumCounts(lc) == SumCountsFrom(lc, 1)

\* a sort by count that puts the later of two items of equal count first
RECURSIVE SortedByCount_Unstable(_)
SortedByCount_Unstable(items) ==
  IF items = <<>> THEN <<>>
  ELSE LET n      == Len(items)
           before == SortedByCount_Unstable(SubSeq(items, 1, n - 1))
           x      == items[n]
           at     == Cardinality({j \in 1..(n - 1) : before[j].count > x.count})
       IN  SubSeq(before, 1, at) \o <<x>> \o SubSeq(before, at + 1, n - 1)

\* sorted(items, key=count, reverse=True): a stable sort, so items of equal
\* count keep the order they have in items
RECURSIVE SortedByCount(_)
SortedByCount(items) ==
  IF items = <<>> THEN <<>>
  ELSE LET n      == Len(items)
           before == SortedByCount(SubSeq(items, 1, n - 1))
           x      == items[n]
           at     == Cardinality({j \in 1..(n - 1) : before[j].count >= x.count})
       IN  SubSeq(before, 1, at) \o <<x>> \o SubSeq(before, at + 1, n - 1)

\* a threshold that 9/10 does not reach
RatioAtLeast90_Strict(count, total) == 10 * count > 9 * total

\* primary_ratio >= 0.90 for primary_ratio = count / total.  The quotient of
\* two ints is rounded to the nearest double and so is the literal 0.90; for
\* counts below 2^53 rounding keeps the order and maps 9/10 to the literal
RatioAtLeast90(count, total) == 10 * count >= 9 * total

\* one entry of report
Line(tag, name, n, d, others) ==
  [tag |-> tag, name |-> name, n |-> n, d |-> d, others |-> others]

SelectCount(words, s) ==
  Cardinality({k \in 1..Len(words) : Contains(s, words[k])})

\* a section C that is entered whatever the total
HasEndings_Always(total) == total >= 0

\* if total_endings > 0:
HasEndings(total) == total > 0

\* a list of the other levels that leaves out a level tied with the primary
OtherEndings_Lower(lc, prim) ==
  SelectSeq(lc, LAMBDA e : e.name # prim.name /\ e.count > 0
                           /\ e.count < prim.count)

\* other_endings: the levels other than the primary that have a count
OtherEndings(lc, prim) ==
  SelectSeq(lc, LAMBDA e : e.name # prim.name /\ e.count > 0)

\* section C: the speech register, from level_counts on
RegisterSection(lc) ==
  LET total == SumCounts(lc)
  IN  IF HasEndings(total)
      THEN LET sorted_levels == SortedByCount(lc)
               prim   == sorted_levels[1]
               others == OtherEndings(lc, prim)
               ex     == (CHOOSE k \in 1..Len(speech_levels) :
                            speech_levels[k].name = prim.name)
               guide  == [k \in 1..Len(speech_levels[ex].examples) |->
                            Line("register-guide-line",
                                 speech_levels[ex].examples[k].category,
                                 speech_levels[ex].examples[k].endings,
                                 0, <<>>)]
               pass   == RatioAtLeast90(prim.count, total)
           IN  [ total   |-> total,
                 primary |-> prim,
                 raised  |-> total = 0,
                 errors  |-> IF pass THEN 0 ELSE 1,
                 lines   |->
                   << Line("register-stats", prim.name, prim.count, 0, <<>>),
                      Line("register-ratio", "", prim.count, total, <<>>) >>
                   \o (IF pass
                       THEN << Line("register-pass", prim.name,
                                    prim.count, total, <<>>) >>
                       ELSE << Line("register-fail", prim.name,
                                    prim.count, total, <<>>) >>
                            \o (IF others # <<>>
                                THEN << Line("register-mixed", "", 0, 0,
                                             others),
                                        Line("register-fix", prim.name,
                                             0, 0, <<>>),
                                        Line("register-guide", prim.name,
                                             0, 0, <<>>) >>
                                     \o guide
                                ELSE <<>>)) ]
      ELSE [ total   |-> total,
             primary |-> NoPrimary,
             raised  |-> FALSE,
             errors  |-> 0,
             lines   |-> <<>> ]

\* sections A and B: the clause statistics, the phrase task and the lexical
\* audit, as the lines they append to report
HeadLines(terminal, embedded, stale, sharp) ==
  << Line("clause-terminal", "", terminal, 0, <<>>),
     Line("clause-embedded", "", embedded, 0, <<>>),
     Line("clause-total", "", terminal + embedded, 0, <<>>) >>
  \o [k \in 1..9 |-> Line("phrase-task", "", k, 0, <<>>)]
  \o (IF stale > 0
      THEN << Line("lexical-block", "", stale, 0, <<>>) >>
      ELSE <<>>)
  \o << Line("lexical-stats", "", sharp, 0, <<>>) >>

----------------------------------------------------------------------------
(* Contents handed to _audit_linguistic_quality: a few or many copies of   *)
(* one sentence, followed by up to MaxMinor copies of another              *)

\* i-da. / han-da. / meog-eo-yo. / ha-ne. / haess-so. / go-chal (a stale
\* word and no sentence end)
Sentences ==
  { <<51060, 45796, 46>>,
    <<54620, 45796, 46>>,
    <<47673, 50612, 50836, 46>>,
    <<54616, 45348, 46>>,
    <<54664, 49548, 46>>,
    <<44256, 52272>> }

\* the sentences that close a text: all but the one without sentence end
MinorSentences == {str \in Sentences : str[Len(str)] = 46}

RECURSIVE Rep(_, _)
Rep(str, n) == IF n = 0 THEN <<>> ELSE str \o Rep(str, n - 1)

MajorCounts == (0..2) \cup {MaxMajor - 1, MaxMajor}

\* endings before a backslash, a space, a letter, the end of the text and a
\* question mark (i-da), an interrogative ending before a question mark, a
\* period and a backslash (ha-nya), and the formal endings hab-ni-da. and
\* haess-seub-ni-da.
ProbeContents ==
  { <<51060, 45796, 92>>, <<51060, 45796, 32>>, <<51060, 45796, 97>>,
    <<51060, 45796>>, <<51060, 45796, 63>>, <<51060, 45796, 33>>,
    <<54616, 45264, 63>>, <<54616, 45264, 46>>, <<54616, 45264, 92>>,
    <<54633, 45768, 45796, 46>>,
    <<54664, 49845, 45768, 45796, 46>>,
    <<54633, 45768, 45796, 46, 54664, 49845, 45768, 45796, 46>> }

AuditContents ==
  { Rep(a, m) \o Rep(b, n) :
      a \in Sentences, b \in MinorSentences,
      m \in MajorCounts, n \in 0..MaxMinor }
  \cup ProbeContents

InitAudit ==
  /\ pc = "audit"
  /\ content \in AuditContents
  /\ clauses = NoClauses
  /\ level_counts = <<>>
  /\ total_endings = 0
  /\ primary = NoPrimary
  /\ errors = 0
  /\ report = <<>>
  /\ CodecIdle
  /\ MoreIdle

\* one call of _audit_linguistic_quality(content); each local is bound once,
\* in the order the code assigns it
Audit ==
  /\ pc = "audit"
  /\ \E text_content \in {get_text(content)} :
     \E jamo_text \in {decompose_hangul(text_content)} :
     \E terminal \in {CountMatches(terminal_patterns, jamo_text)} :
     \E embedded \in {Len(findall(embedded_pattern, text_content))} :
     \E stale \in {SelectCount(stale_words, text_content)} :
     \E sharp \in {SelectCount(sharp_pool, text_content)} :
     \E lc \in {LevelCounts(jamo_text)} :
     \E reg \in {RegisterSection(lc)} :
       /\ pc' = IF reg.raised THEN "raised" ELSE "audited"
       /\ clauses' = [terminal |-> terminal, embedded |-> embedded,
                      total |-> terminal + embedded]
       /\ level_counts' = lc
       /\ total_endings' = reg.total
       /\ primary' = reg.primary
       /\ errors' = (IF stale > 0 THEN 1 ELSE 0) + reg.errors
       /\ report' = HeadLines(terminal, embedded, stale, sharp)
                      \o reg.lines
                      \o << Line("linguistic-note", "", 0, 0, <<>>) >>
  /\ UNCHANGED <<content, codecVars, moreVars>>

NextAudit == Audit

SpecAudit == InitAudit /\ [][NextAudit]_vars

----------------------------------------------------------------------------
(* Vocabulary of the codec claims *)

Onsets == {CHOSUNG[k] : k \in 1..Len(CHOSUNG)}
Vowels == {JUNGSUNG[k] : k \in 1..Len(JUNGSUNG)}
Codas  == {JONGSUNG[k] : k \in 2..Len(JONGSUNG)}
JamoLetters == Onsets \cup Vowels \cup Codas

\* ASCII punctuation: ! .. /, : .. @, [ .. `, { .. ~
AsciiPunct == (33..47) \cup (58..64) \cup (91..96) \cup (123..126)

SyllableBlock == 44032..55203

CodaIndexOf(code) == (code - 44032) % 28
OnsetOf(code) == CHOSUNG[((code - 44032) \div 588) + 1]

OnlySyllablesAndPunct(s) ==
  \A k \in 1..Len(s) : s[k] \in SyllableBlock \cup AsciiPunct

NoJamoLiteral(s) == \A k \in 1..Len(s) : s[k] \notin JamoLetters

\* C1: a text of Hangul syllables and ASCII punctuation comes back unchanged
\* from compose_jamo(decompose_hangul(text)), whatever follows a syllable
\* with or without coda.
C1_RoundTrip ==
  (pc = "done" /\ OnlySyllablesAndPunct(text)) => composed = text

\* an open syllable before an onset that is also a coda, then a closed
\* syllable before punctuation
C1_Witness ==
  /\ pc = "done"
  /\ Len(text) = 3
  /\ text[1] \in SyllableBlock /\ CodaIndexOf(text[1]) = 0
  /\ text[2] \in SyllableBlock /\ OnsetOf(text[2]) \in Codas
  /\ CodaIndexOf(text[2]) > 0
  /\ text[3] \in AsciiPunct
  /\ composed = text

\* C2 as stated: every text of syllables and arbitrary other characters,
\* lone jamo letters included, comes back unchanged.
C2_AnyLiteral == pc = "done" => composed = text

\* C2 amended: a text of Hangul syllables and of literals that are neither
\* syllables nor letters of the three jamo tables comes back unchanged.
C2_NoJamoLiteral ==
  (pc = "done" /\ NoJamoLiteral(text)) => composed = text

\* a closed syllable next to a letter and to a code point just outside the
\* syllable block
C2_Witness ==
  /\ pc = "done"
  /\ NoJamoLiteral(text)
  /\ \E k \in 1..Len(text) : text[k] \in SyllableBlock /\ CodaIndexOf(text[k]) > 0
  /\ \E k \in 1..Len(text) : text[k] \notin SyllableBlock \cup AsciiPunct
  /\ composed = text

\* C3: a syllable c decomposes into CHOSUNG[cho], JUNGSUNG[jung] and, only
\* for jong > 0, JONGSUNG[jong], with cho = (c - 0xAC00) div 588 in 0..18,
\* jung = ((c - 0xAC00) mod 588) div 28 in 0..20, jong = (c - 0xAC00) mod 28
\* in 0..27: two or three units, no placeholder, no lookup out of range, and
\* the units determine c; deo-ra gives the four units d eo r a.
C3_Units ==
  pc = "decomposed" =>
    /\ (Len(text) = 1 /\ text[1] \in SyllableBlock) =>
         LET c      == text[1]
             offset == c - 44032
             cho    == offset \div 588
             jung   == (offset % 588) \div 28
             jong   == offset % 28
             u      == jamo_str
         IN  /\ cho \in 0..18 /\ jung \in 0..20 /\ jong \in 0..27
             /\ Len(u) = (IF jong > 0 THEN 3 ELSE 2)
             /\ u[1] = CHOSUNG[cho + 1]
             /\ u[2] = JUNGSUNG[jung + 1]
             /\ jong > 0 => u[3] = JONGSUNG[jong + 1]
             /\ \A k \in 1..Len(u) : u[k] \in JamoLetters
             /\ c = 44032 + Index(CHOSUNG, u[1]) * 588
                          + Index(JUNGSUNG, u[2]) * 28
                          + (IF Len(u) = 3 THEN Index(JONGSUNG, u[3]) ELSE 0)
    /\ text = <<45908, 46972>> => jamo_str = <<12599, 12627, 12601, 12623>>

\* the last syllable of the block, U+D7A3, has been decomposed
C3_Witness ==
  /\ pc = "decomposed"
  /\ text = <<55203>>
  /\ jamo_str = <<12622, 12643, 12622>>

\* C5: one pass of compose_jamo's loop builds a syllable from an onset and a
\* vowel, takes the next unit as coda iff it is a coda and no vowel follows
\* it, and otherwise emits the unit as a literal; a built code point lies in
\* the syllable block.
C5_Pass ==
  LET s == jamo_str
      n == Len(s)
      u(k) == s[k + 1]
      starts == /\ u(i) \in Onsets
                /\ i + 1 < n
                /\ u(i + 1) \in Vowels
      coda   == /\ i + 2 < n
                /\ u(i + 2) \in Codas
                /\ ~(i + 3 < n /\ u(i + 3) \in Vowels)
      cho    == Index(CHOSUNG, u(i))
      jung   == Index(JUNGSUNG, u(i + 1))
      jong   == IF coda THEN Index(JONGSUNG, u(i + 2)) ELSE 0
      built  == 44032 + cho * 588 + jung * 28 + jong
  IN  (pc = "composing" /\ i < n) =>
        IF starts
        THEN /\ result' = Append(result, built)
             /\ built \in SyllableBlock
             /\ i' = i + (IF coda THEN 3 ELSE 2)
        ELSE /\ result' = Append(result, u(i))
             /\ i' = i + 1

C5_Greedy == [][C5_Pass]_vars

\* the cursor stands after "ga" of the units g a n a: n was left as the
\* onset of the next syllable
C5_Witness ==
  /\ pc = "composing"
  /\ jamo_str = <<12593, 12623, 12596, 12623>>
  /\ i = 2
  /\ result = <<44032>>

\* the caller runs on: a sequential program is never suspended for ever
FairCodec == SpecCodec /\ WF_vars(NextCodec)

\* no subscript failed: no IndexError mark in a value, no read behind the end
NoRaise ==
  /\ \A k \in 1..Len(result) : result[k] # IndexError
  /\ \A k \in 1..Len(jamo_str) : jamo_str[k] # IndexError
  /\ \A k \in 1..Len(composed) : composed[k] # IndexError
  /\ \A r \in reads : 0 <= r /\ r < Len(jamo_str)

\* decompose_hangul copies a character outside the syllable block as it is
CopiesLiteral ==
  (pc = "decomposing" /\ pos < Len(text) /\ text[pos + 1] \notin SyllableBlock)
    => result' = Append(result, text[pos + 1])

\* compose_jamo's cursor moves on by 1, 2 or 3 and stays within the input
CursorAdvances ==
  (pc = "composing" /\ i < Len(jamo_str))
    => (i' - i \in 1..3 /\ i' <= Len(jamo_str))

\* C4: decompose_hangul and compose_jamo are total: on every input, the
\* empty text and texts ending in a lone onset, a lone vowel or an onset and
\* a vowel included, both return without a failed subscript; decompose
\* copies the characters outside the syllable block unchanged and in order;
\* compose moves its cursor by 1, 2 or 3 units per pass and never reads
\* behind the end of its input.
C4_Total ==
  /\ []NoRaise
  /\ [][CopiesLiteral]_vars
  /\ [][CursorAdvances]_vars
  /\ <>(pc = "done")

\* compose_jamo has returned for a text that ends in a lone onset consonant
C4_Witness ==
  /\ pc = "done"
  /\ Len(text) = MaxLen
  /\ text[Len(text)] = 12596
  /\ text[Len(text) - 1] \in SyllableBlock
  /\ Len(composed) = Len(text) - 1

----------------------------------------------------------------------------
(* validate_ratio.py: validate_ratio *)

\* min_ratio = TARGET_RATIO - TOLERANCE and max_ratio = TARGET_RATIO +
\* TOLERANCE, in tenths; as doubles 2.0 - 0.3 and 2.0 + 0.3 are the doubles
\* of the literals 1.7 and 2.3
min_ratio == TARGET_RATIO - TOLERANCE
max_ratio == TARGET_RATIO + TOLERANCE

\* a guard that lets a phrase count of zero through
InvalidInput_Negative(phrase) == phrase < 0

\* if phrase_count <= 0:
InvalidInput(phrase) == phrase <= 0

\* ratio = clause_count / phrase_count raises ZeroDivisionError
DivisionRaises(clause, phrase) == ~InvalidInput(phrase) /\ phrase = 0

\* a band without its upper end
RatioInBand_Open(clause, phrase) ==
  min_ratio * phrase <= 10 * clause /\ 10 * clause < max_ratio * phrase

\* min_ratio <= ratio <= max_ratio for ratio = clause / phrase, phrase > 0.
\* The quotient is rounded to the nearest double, which keeps the order and
\* maps 17/10 and 23/10 to the doubles of min_ratio and max_ratio
RatioInBand(clause, phrase) ==
  min_ratio * phrase <= 10 * clause /\ 10 * clause <= max_ratio * phrase

\* ratio > max_ratio
RatioAbove(clause, phrase) == 10 * clause > max_ratio * phrase

\* an ideal phrase count that rounds up
IdealPhrases_Up(clause) ==
  IF clause >= 0 THEN (10 * clause + TARGET_RATIO - 1) \div TARGET_RATIO
  ELSE -((10 * (-clause)) \div TARGET_RATIO)

\* int(clause_count / TARGET_RATIO): int() drops the fraction, towards zero
IdealPhrases(clause) ==
  IF clause >= 0 THEN (10 * clause) \div TARGET_RATIO
  ELSE -((10 * (-clause)) \div TARGET_RATIO)

\* the dict validate_ratio returns.  ratio is kept as the pair of ints it is
\* the quotient of; float('inf') is the pair with denominator 0.  message is
\* the kind of the message, action the kind of instruction and its number
validate_ratio(clause, phrase) ==
  IF InvalidInput(phrase)
  THEN [ pass |-> FALSE, ratio |-> [num |-> 1, den |-> 0],
         clause_count |-> clause, phrase_count |-> phrase,
         message |-> "error",
         action |-> [kind |-> "recount", amount |-> 0] ]
  ELSE IF RatioInBand(clause, phrase)
  THEN [ pass |-> TRUE, ratio |-> [num |-> clause, den |-> phrase],
         clause_count |-> clause, phrase_count |-> phrase,
         message |-> "pass",
         action |-> [kind |-> "none", amount |-> 0] ]
  ELSE [ pass |-> FALSE, ratio |-> [num |-> clause, den |-> phrase],
         clause_count |-> clause, phrase_count |-> phrase,
         message |-> "fail",
         action |-> IF RatioAbove(clause, phrase)
                    THEN [kind |-> "add",
                          amount |-> IdealPhrases(clause) - phrase]
                    ELSE [kind |-> "reduce",
                          amount |-> phrase - IdealPhrases(clause)] ]

InitRatio ==
  /\ pc = "validate"
  /\ clause_count \in (-MaxBelow)..MaxClause
  /\ phrase_count \in (-MaxBelow)..MaxPhrase
  /\ validation = NoValidation
  /\ ClauseIdle
  /\ CallIdle
  /\ CodecIdle
  /\ AuditIdle
  /\ LateIdle

\* one call of validate_ratio(clause_count, phrase_count)
ValidateRatio ==
  /\ pc = "validate"
  /\ IF DivisionRaises(clause_count, phrase_count)
     THEN /\ pc' = "raised"
          /\ UNCHANGED validation
     ELSE /\ pc' = "validated"
          /\ validation' = validate_ratio(clause_count, phrase_count)
  /\ UNCHANGED <<clause_count, phrase_count, codecVars, auditVars,
                 clauseVars, callVars, lateVars>>

NextRatio == ValidateRatio

SpecRatio == InitRatio /\ [][NextRatio]_vars

----------------------------------------------------------------------------
(* validate_ratio.py: its own jamo tables and decompose_hangul, lines 26-47 *)

VR_CHOSUNG == <<12593, 12594, 12596, 12599, 12600, 12601, 12609, 12610,
                12611, 12613, 12614, 12615, 12616, 12617, 12618, 12619,
                12620, 12621, 12622>>

VR_JUNGSUNG == <<12623, 12624, 12625, 12626, 12627, 12628, 12629, 12630,
                 12631, 12632, 12633, 12634, 12635, 12636, 12637, 12638,
                 12639, 12640, 12641, 12642, 12643>>

VR_JONGSUNG == <<0, 12593, 12594, 12595, 12596, 12597, 12598, 12599, 12601,
                 12602, 12603, 12604, 12605, 12606, 12607, 12608, 12609,
                 12610, 12612, 12613, 12614, 12615, 12616, 12618, 12619,
                 12620, 12621, 12622>>

\* the body of the for loop of validate_ratio.decompose_hangul
VR_DecomposeChar(code) ==
  IF 44032 <= code /\ code <= 55203
  THEN LET offset == code - 44032
           cho    == offset \div (21 * 28)
           jung   == (offset % (21 * 28)) \div 28
           jong   == offset % 28
       IN  <<Lookup(VR_CHOSUNG, cho), Lookup(VR_JUNGSUNG, jung)>>
             \o (IF jong > 0 THEN <<Lookup(VR_JONGSUNG, jong)>> ELSE <<>>)
  ELSE <<code>>

RECURSIVE VR_DecomposeFrom(_, _)
VR_DecomposeFrom(s, k) ==
  IF k > Len(s) THEN <<>>
  ELSE VR_DecomposeChar(s[k]) \o VR_DecomposeFrom(s, k + 1)

VR_decompose_hangul(s) == VR_DecomposeFrom(s, 1)

\* a list of terminal templates without the formal ending -ni-da
VR_terminal_patterns_Short ==
  << <<Lit(<<12599, 12623>>), Cls({46, 33})>>,   \* ㄷㅏ[\.!]
     <<Lit(<<12615, 12627>>), Cls({46, 33})>>,   \* ㅇㅓ[\.!]
     <<Lit(<<12615, 12623>>), Cls({46, 33})>>,   \* ㅇㅏ[\.!]
     <<Lit(<<12616, 12643>>), Cls({46, 33})>>,   \* ㅈㅣ[\.!]
     <<Lit(<<12596, 12628>>), Cls({46, 33})>>,   \* ㄴㅔ[\.!]
     <<Lit(<<12615, 12635>>), Cls({46, 33})>>,   \* ㅇㅛ[\.!]
     <<Lit(<<12596, 12625>>), Cls({63})>>,   \* ㄴㅑ[\?]
     <<Lit(<<12596, 12643>>), Cls({63})>>,   \* ㄴㅣ[\?]
     <<Lit(<<12616, 12623>>), Cls({46, 33})>>,   \* ㅈㅏ[\.!]
     <<Lit(<<12601, 12623>>), Cls({46, 33})>> >>   \* ㄹㅏ[\.!]

\* terminal_patterns of count_clauses
VR_terminal_patterns ==
  << <<Lit(<<12599, 12623>>), Cls({46, 33})>>,   \* ㄷㅏ[\.!]
     <<Lit(<<12615, 12627>>), Cls({46, 33})>>,   \* ㅇㅓ[\.!]
     <<Lit(<<12615, 12623>>), Cls({46, 33})>>,   \* ㅇㅏ[\.!]
     <<Lit(<<12616, 12643>>), Cls({46, 33})>>,   \* ㅈㅣ[\.!]
     <<Lit(<<12596, 12628>>), Cls({46, 33})>>,   \* ㄴㅔ[\.!]
     <<Lit(<<12615, 12635>>), Cls({46, 33})>>,   \* ㅇㅛ[\.!]
     <<Lit(<<12596, 12643, 12599, 12623>>), Cls({46, 33})>>,   \* ㄴㅣㄷㅏ[\.!]
     <<Lit(<<12596, 12625>>), Cls({63})>>,   \* ㄴㅑ[\?]
     <<Lit(<<12596, 12643>>), Cls({63})>>,   \* ㄴㅣ[\?]
     <<Lit(<<12616, 12623>>), Cls({46, 33})>>,   \* ㅈㅏ[\.!]
     <<Lit(<<12601, 12623>>), Cls({46, 33})>> >>   \* ㄹㅏ[\.!]

\* (?:는|ㄴ|은|ㄹ|을|던)\s*(?:것|거|때|곳|이|수|줄|법|리)
VR_embedded_pattern ==
  <<Alt(<<<<45716>>, <<12596>>, <<51008>>, <<12601>>, <<51012>>, <<45912>>>>), Star(WHITESPACE), Alt(<<<<44163>>, <<44144>>, <<46412>>, <<44275>>, <<51060>>, <<49688>>, <<51460>>, <<48277>>, <<47532>>>>)>>

----------------------------------------------------------------------------
(* validate_ratio.py: count_clauses *)

\* if '<' in content and '>' in content:
LooksLikeHtml(c) ==
  /\ \E k \in 1..Len(c) : c[k] = 60
  /\ \E k \in 1..Len(c) : c[k] = 62

\* text
ClauseText(c) == IF LooksLikeHtml(c) THEN get_text(c) ELSE c

\* an embedded count taken on the jamo text
EmbeddedSubject_Jamo(txt, jamo) == jamo

\* the second argument of the re.findall that counts embedded clauses
EmbeddedSubject(txt, jamo) == txt

\* the dict count_clauses returns
ClauseDict(terminal, embedded) ==
  [terminal |-> terminal, embedded |-> embedded, total |-> terminal + embedded]

CountClausesOf(txt, jamo) ==
  ClauseDict(CountMatches(VR_terminal_patterns, jamo),
             Len(findall(VR_embedded_pattern, EmbeddedSubject(txt, jamo))))

count_clauses(c) ==
  CountClausesOf(ClauseText(c), VR_decompose_hangul(ClauseText(c)))

\* han-da. / geos-i-da. / ha-neun geos-eul / hab-ni-da. / ha-nya? / <p> /
\* </p> / a lone '<'
ClausePieces ==
  { <<54620, 45796, 46>>,
    <<44163, 51060, 45796, 46>>,
    <<54616, 45716, 32, 44163, 51012>>,
    <<54633, 45768, 45796, 46>>,
    <<54616, 45264, 63>>,
    <<60, 112, 62>>,
    <<60, 47, 112, 62>>,
    <<60, 32>> }

\* the texts of at most n pieces
RECURSIVE PieceTexts(_)
PieceTexts(n) ==
  IF n = 0 THEN {<<>>}
  ELSE LET shorter == PieceTexts(n - 1)
       IN  shorter \cup {t \o piece : t \in shorter, piece \in ClausePieces}

ClauseContents == PieceTexts(MaxPieces)

InitClauses ==
  /\ pc = "count"
  /\ content \in ClauseContents
  /\ counts = NoClauses
  /\ clauses = NoClauses
  /\ level_counts = <<>>
  /\ total_endings = 0
  /\ primary = NoPrimary
  /\ errors = 0
  /\ report = <<>>
  /\ CodecIdle
  /\ RatioIdle
  /\ CallIdle
  /\ LateIdle

\* one call of count_clauses(content)
CountClauses ==
  /\ pc = "count"
  /\ \E txt \in {ClauseText(content)} :
     \E jamo \in {VR_decompose_hangul(txt)} :
       /\ pc' = IF \E k \in 1..Len(jamo) : jamo[k] = IndexError
                THEN "raised" ELSE "counted"
       /\ counts' = CountClausesOf(txt, jamo)
  /\ UNCHANGED <<codecVars, auditVars, ratioVars, callVars, lateVars>>

NextClauses == CountClauses

SpecClauses == InitClauses /\ [][NextClauses]_vars

----------------------------------------------------------------------------
(* Calls of several callers, interleaved statement by statement.  A call
   keeps what it computes in the locals of its own frame; the module-level
   tables are only read *)

\* the calls a caller makes: decompose_hangul of gan. and of ha, compose_jamo
\* of the jamo of gan., the register section of ha-ne., count_clauses of
\* han-da. and validate_ratio(20, 5)
Calls ==
  { [op |-> "decompose", arg |-> <<44036, 46>>],
    [op |-> "decompose", arg |-> <<54616>>],
    [op |-> "compose", arg |-> <<12593, 12623, 12596, 46>>],
    [op |-> "classify", arg |-> <<54616, 45348, 46>>],
    [op |-> "count", arg |-> <<54620, 45796, 46>>],
    [op |-> "validate", arg |-> <<20, 5>>] }

NewFrame(call) ==
  [ op |-> call.op, arg |-> call.arg, pc |-> "call",
    k |-> 0, acc |-> <<>>, jamo |-> <<>>, lc |-> <<>>, ret |-> <<>> ]

\* locals kept in one place for all callers
FrameOf_Shared(c) == 1

\* the frame that holds the locals of the call of caller c: its own
FrameOf(c) == c

Locals(c) == frames[FrameOf(c)]

\* caller c moves to p with the locals loc and the return value r
Put(c, p, loc, r) ==
  frames' = [frames EXCEPT ![FrameOf(c)].k = loc.k,
                           ![FrameOf(c)].acc = loc.acc,
                           ![FrameOf(c)].jamo = loc.jamo,
                           ![FrameOf(c)].lc = loc.lc,
                           ![c].pc = p,
                           ![c].ret = r]

CallFrame == UNCHANGED <<pc, tables, codecVars, auditVars, ratioVars,
                         clauseVars, lateVars>>

\* decompose_hangul(arg), a statement at a time
DecomposeCall(c) ==
  /\ frames[c].op = "decompose"
  /\ \E me \in {frames[c]} : \E loc \in {Locals(c)} :
       \/ /\ me.pc = "call"
          /\ Put(c, "loop", [loc EXCEPT !.k = 0, !.acc = <<>>], me.ret)
       \/ /\ me.pc = "loop"
          /\ loc.k < Len(me.arg)
          /\ Put(c, "loop",
                 [loc EXCEPT !.k = loc.k + 1,
                             !.acc = loc.acc \o DecomposeChar(me.arg[loc.k + 1])],
                 me.ret)
       \/ /\ me.pc = "loop"
          /\ ~(loc.k < Len(me.arg))
          /\ Put(c, "done", loc, loc.acc)
  /\ CallFrame

\* compose_jamo(arg), a statement at a time
ComposeCall(c) ==
  /\ frames[c].op = "compose"
  /\ \E me \in {frames[c]} : \E loc \in {Locals(c)} :
       \/ /\ me.pc = "call"
          /\ Put(c, "loop", [loc EXCEPT !.k = 0, !.acc = <<>>], me.ret)
       \/ /\ me.pc = "loop"
          /\ loc.k < Len(me.arg)
          /\ \E it \in {ComposeIter(me.arg, loc.k)} :
               Put(c, "loop",
                   [loc EXCEPT !.k = it.next, !.acc = loc.acc \o it.out],
                   me.ret)
       \/ /\ me.pc = "loop"
          /\ ~(loc.k < Len(me.arg))
          /\ Put(c, "done", loc, loc.acc)
  /\ CallFrame

\* the register section of _audit_linguistic_quality(arg): jamo_text, then
\* level_counts, then the section
ClassifyCall(c) ==
  /\ frames[c].op = "classify"
  /\ \E me \in {frames[c]} : \E loc \in {Locals(c)} :
       \/ /\ me.pc = "call"
          /\ Put(c, "jamo",
                 [loc EXCEPT !.jamo = decompose_hangul(get_text(me.arg))],
                 me.ret)
       \/ /\ me.pc = "jamo"
          /\ Put(c, "counted", [loc EXCEPT !.lc = LevelCounts(loc.jamo)],
                 me.ret)
       \/ /\ me.pc = "counted"
          /\ Put(c, "done", loc, RegisterSection(loc.lc))
  /\ CallFrame

\* count_clauses(arg): jamo, then the counts
CountCall(c) ==
  /\ frames[c].op = "count"
  /\ \E me \in {frames[c]} : \E loc \in {Locals(c)} :
       \/ /\ me.pc = "call"
          /\ Put(c, "jamo",
                 [loc EXCEPT !.jamo = VR_decompose_hangul(ClauseText(me.arg))],
                 me.ret)
       \/ /\ me.pc = "jamo"
          /\ Put(c, "done", loc, CountClausesOf(ClauseText(me.arg), loc.jamo))
  /\ CallFrame

\* validate_ratio(arg[1], arg[2]): every local is bound once
ValidateCall(c) ==
  /\ frames[c].op = "validate"
  /\ frames[c].pc = "call"
  /\ ~DivisionRaises(frames[c].arg[1], frames[c].arg[2])
  /\ Put(c, "done", Locals(c),
         validate_ratio(frames[c].arg[1], frames[c].arg[2]))
  /\ CallFrame

InitCalls ==
  /\ pc = "calls"
  /\ frames \in [1..MaxCallers -> {NewFrame(call) : call \in Calls}]
  /\ tables = ModuleTables
  /\ CodecIdle
  /\ AuditIdle
  /\ RatioIdle
  /\ ClauseIdle
  /\ LateIdle

NextCalls ==
  \E c \in 1..MaxCallers :
    \/ DecomposeCall(c)
    \/ ComposeCall(c)
    \/ ClassifyCall(c)
    \/ CountCall(c)
    \/ ValidateCall(c)

SpecCalls == InitCalls /\ [][NextCalls]_vars

----------------------------------------------------------------------------
(* Vocabulary of the classifier claims *)

\* the strings a template without \s* denotes
RECURSIVE WordsFrom(_, _)
WordsFrom(p, k) ==
  IF k > Len(p) THEN {<<>>}
  ELSE CASE p[k].kind = "alt" ->
              {p[k].alts[j] \o w : j \in 1..Len(p[k].alts), w \in WordsFrom(p, k + 1)}
         [] p[k].kind = "cls" ->
              {<<ch>> \o w : ch \in p[k].cls, w \in WordsFrom(p, k + 1)}

LevelWords ==
  [k \in 1..Len(speech_levels) |->
     [m \in 1..Len(speech_levels[k].jamo_patterns) |->
        WordsFrom(speech_levels[k].jamo_patterns[m], 1)]]

\* the occurrences <<first, last>> in s of a string of words
Occurrences(words, s) ==
  { <<b - Len(w) + 1, b>> :
      <<w, b>> \in { x \in words \X {b \in 1..Len(s) :
                                       \E w \in words : s[b] = w[Len(w)]} :
                       /\ Len(x[1]) <= x[2]
                       /\ SubSeq(s, x[2] - Len(x[1]) + 1, x[2]) = x[1] } }

\* the occurrences in s of each template of level k
TemplateOccurrences(k, s) ==
  [m \in 1..Len(LevelWords[k]) |-> Occurrences(LevelWords[k][m], s)]

\* two occurrences of a template either end at the same sentence mark, and
\* then overlap, or lie apart: the non-overlapping matches of a template
\* are as many as the places where an occurrence ends
Apart(occ) ==
  \A o1 \in occ : \A o2 \in occ : o1[2] < o2[2] => o1[2] < o2[1]

\* the non-overlapping matches of the templates, each template on its own
TemplateMatches(occ) ==
  UNION { {<<m, o[2]>> : o \in occ[m]} : m \in DOMAIN occ }

HasLine(tag) == \E k \in 1..Len(report) : report[k].tag = tag

LineOf(tag) == report[CHOOSE k \in 1..Len(report) : report[k].tag = tag]

RegisterTags == {"register-stats", "register-ratio", "register-pass",
                 "register-fail", "register-mixed", "register-fix",
                 "register-guide", "register-guide-line"}

Counts == {level_counts[k].count : k \in 1..Len(level_counts)}

MaxCount == CHOOSE c \in Counts : \A d \in Counts : d <= c

HaNe == <<54616, 45348, 46>>

\* C6: the count of a level is the sum, over its templates, of the
\* non-overlapping matches of the template in the jamo text; the levels are
\* counted independently of each other, so a sentence ha-ne. adds 1 to
\* level 2 and 1 to level 3.
C6_Counts ==
  pc = "audited" =>
    \A s \in {decompose_hangul(content)} :
      /\ \A k \in 1..Len(speech_levels) :
           /\ level_counts[k].level = k
           /\ \A occ \in {TemplateOccurrences(k, s)} :
                /\ level_counts[k].count = Cardinality(TemplateMatches(occ))
                /\ \A m \in DOMAIN occ : Apart(occ[m])
      /\ \A n \in 1..(MaxMajor + MaxMinor) :
           content = Rep(HaNe, n) =>
             /\ level_counts[2].count = n
             /\ level_counts[3].count = n

\* ha-ne. han-da. has been audited: one ending in two levels, and one
\* ending under two templates of level 1
C6_Witness ==
  /\ pc = "audited"
  /\ content = HaNe \o <<54620, 45796, 46>>
  /\ level_counts[1].count = 2
  /\ level_counts[2].count = 1
  /\ level_counts[3].count = 1

\* C7: with a positive total the dominant level has the greatest count, and
\* among the levels that share the greatest count it is the lowest.
C7_Dominant ==
  (pc = "audited" /\ MaxCount > 0) =>
    /\ primary.count = MaxCount
    /\ level_counts[primary.level].count = MaxCount
    /\ \A k \in 1..Len(level_counts) :
         level_counts[k].count = MaxCount => primary.level <= k
    /\ HasLine("register-stats")
    /\ LineOf("register-stats").name = speech_levels[primary.level].name
    /\ LineOf("register-stats").n = MaxCount

\* levels 1 and 5 tie at one ending each and level 1 is reported
C7_Witness ==
  /\ pc = "audited"
  /\ level_counts[1].count = 1
  /\ level_counts[5].count = 1
  /\ MaxCount = 1
  /\ primary.level = 1
  /\ LineOf("register-stats").name = "haerache"

\* C8: the verdict is PASS iff 10 * dominant >= 9 * total, FAIL otherwise:
\* 9 of 10 passes, 8 of 9 fails.
C8_Verdict ==
  (pc = "audited" /\ MaxCount > 0) =>
    \A total \in {SumCounts(level_counts)} :
      /\ HasLine("register-pass") <=> 10 * MaxCount >= 9 * total
      /\ HasLine("register-fail") <=> 10 * MaxCount < 9 * total
      /\ (MaxCount = 9 /\ total = 10) => HasLine("register-pass")
      /\ (MaxCount = 8 /\ total = 9) => HasLine("register-fail")

\* nine endings of one level and one of another: PASS on the boundary
C8_Witness ==
  /\ pc = "audited"
  /\ MaxCount = 9
  /\ SumCounts(level_counts) = 10
  /\ HasLine("register-pass")
  /\ ~HasLine("register-fail")
  /\ errors = 0

\* the sentences of c that end in da. / in eo-yo. ; the sentence marks of c
DaEndings(c) ==
  {k \in 1..(Len(c) - 1) : c[k] = 45796 /\ c[k + 1] = 46}
EoYoEndings(c) ==
  {k \in 1..(Len(c) - 2) : c[k] = 50612 /\ c[k + 1] = 50836 /\ c[k + 2] = 46}
SentenceMarks(c) == {k \in 1..Len(c) : c[k] \in {46, 33, 63}}

\* C9: a text of exactly nine sentences in -da. and one in -eo-yo., whatever
\* precedes the endings, has level-1 count 9, level-5 count 1 and no other
\* match, dominant level 1, ratio 9/10 and the verdict PASS.
C9_NineAndOne ==
  ( /\ pc = "audited"
    /\ Cardinality(DaEndings(content)) = 9
    /\ Cardinality(EoYoEndings(content)) = 1
    /\ Cardinality(SentenceMarks(content)) = 10 )
  => /\ level_counts[1].count = 9
     /\ level_counts[5].count = 1
     /\ \A k \in {2, 3, 4, 6} : level_counts[k].count = 0
     /\ primary.level = 1
     /\ LineOf("register-ratio").n = 9
     /\ LineOf("register-ratio").d = 10
     /\ HasLine("register-pass")

Terminators == {46, 33, 63}

\* C11: a template matches only before sentence-terminal punctuation: every
\* match of every template of every level ends in a period, an exclamation
\* mark or a question mark, and a text without any of them has no match.
C11_Anchored ==
  pc = "audited" =>
    /\ \A s \in {decompose_hangul(content)} :
         \A k \in 1..Len(speech_levels) :
           \A occ \in {TemplateOccurrences(k, s)} :
             \A m \in DOMAIN occ : \A o \in occ[m] : s[o[2]] \in Terminators
    /\ (\A j \in 1..Len(content) : content[j] \notin Terminators)
         => total_endings = 0

\* the lines of report that carry the permitted endings of a level
GuideLines == SelectSeq(report, LAMBDA l : l.tag = "register-guide-line")

FormalEnding(c, k) ==
  /\ k > 3
  /\ c[k] = 46
  /\ c[k - 1] = 45796
  /\ c[k - 2] = 45768
  /\ IsSyllable(c[k - 3])
  /\ (c[k - 3] - 44032) % 28 = 17

\* C19: a text whose sentences all end in -seub-ni-da. or -b-ni-da., and
\* that has no other sentence ending, is reported with dominant level 6 and
\* PASS.
C19_FormalPass ==
  ( /\ pc = "audited"
    /\ \E k \in 1..Len(content) : content[k] \in Terminators
    /\ \A k \in 1..Len(content) :
         content[k] \in Terminators \cup {92} => FormalEnding(content, k) )
  => /\ primary.level = 6
     /\ HasLine("register-pass")

\* C13: with phrase_count <= 0 validate_ratio returns the invalid-input
\* result (pass false, the error message, no quantity to add or remove, no
\* quotient) and raises nothing; with phrase_count > 0 it never returns it.
C13_InvalidInput ==
  /\ pc # "raised"
  /\ pc = "validated" =>
       IF phrase_count <= 0
       THEN /\ validation.pass = FALSE
            /\ validation.message = "error"
            /\ validation.action.kind \notin {"add", "reduce"}
            /\ validation.ratio.den = 0
            /\ validation.clause_count = clause_count
            /\ validation.phrase_count = phrase_count
       ELSE /\ validation.message # "error"
            /\ validation.action.kind # "recount"
            /\ validation.ratio.den # 0

\* validate(10, 0) has returned
C13_Witness ==
  /\ pc = "validated"
  /\ clause_count = 10
  /\ phrase_count = 0
  /\ validation.message = "error"
  /\ validation.pass = FALSE

\* C14: for phrase_count > 0, pass iff 17 * phrase <= 10 * clause <= 23 *
\* phrase, and the ratio reported is clause / phrase; (20, 10), (17, 10) and
\* (23, 10) pass, (20, 5) fails.
C14_Band ==
  (pc = "validated" /\ phrase_count > 0) =>
    /\ validation.pass <=> ( /\ 17 * phrase_count <= 10 * clause_count
                             /\ 10 * clause_count <= 23 * phrase_count )
    /\ validation.ratio = [num |-> clause_count, den |-> phrase_count]
    /\ (phrase_count = 10 /\ clause_count \in {17, 20, 23}) => validation.pass
    /\ (phrase_count = 5 /\ clause_count = 20) => ~validation.pass

\* validate(23, 10) has passed, on the upper end of the band
C14_Witness ==
  /\ pc = "validated"
  /\ clause_count = 23
  /\ phrase_count = 10
  /\ validation.pass
  /\ validation.message = "pass"

\* C15: on FAIL with phrase_count > 0 and clause_count >= 0 the ideal phrase
\* count is floor(clause / 2); above 2.3 the action is to add ideal - phrase,
\* below 1.7 it is to remove or expand phrase - ideal; a FAIL has exactly one
\* of the two and a PASS none; (20, 5) gives add 5.
C15_Action ==
  (pc = "validated" /\ phrase_count > 0 /\ clause_count >= 0) =>
    \A ideal \in {clause_count \div 2} :
      /\ validation.pass => validation.action.kind = "none"
      /\ ~validation.pass =>
           /\ validation.action.kind \in {"add", "reduce"}
           /\ 10 * clause_count > 23 * phrase_count
                => validation.action =
                     [kind |-> "add", amount |-> ideal - phrase_count]
           /\ 10 * clause_count < 17 * phrase_count
                => validation.action =
                     [kind |-> "reduce", amount |-> phrase_count - ideal]
      /\ (clause_count = 20 /\ phrase_count = 5)
           => validation.action = [kind |-> "add", amount |-> 5]

\* validate(20, 5) has failed with the instruction to add 5 phrases
C15_Witness ==
  /\ pc = "validated"
  /\ clause_count = 20
  /\ phrase_count = 5
  /\ ~validation.pass
  /\ validation.action = [kind |-> "add", amount |-> 5]

\* the determiner suffixes neun, n, eun, l, eul, deon and the head nouns
\* geos, geo, ttae, gos, i, su, jul, beob, ri
Determiners == {45716, 12596, 51008, 12601, 51012, 45912}
HeadNouns == {44163, 44144, 46412, 44275, 51060, 49688, 51460, 48277, 47532}

\* the determiners of t that a head noun follows, whitespace at most between
\* them; no two such stretches overlap, a head noun being no determiner
EmbeddedMarks(t) ==
  { k \in 1..Len(t) :
      /\ t[k] \in Determiners
      /\ \E j \in (k + 1)..Len(t) :
           /\ t[j] \in HeadNouns
           /\ \A h \in (k + 1)..(j - 1) : t[h] \in WHITESPACE }

TerminalWords ==
  [m \in 1..Len(terminal_patterns) |-> WordsFrom(terminal_patterns[m], 1)]

\* the matches of the sentence-final templates in the jamo text s, each
\* template on its own
TerminalMatches(s) ==
  UNION { {<<m, o[2]>> : o \in Occurrences(TerminalWords[m], s)} :
          m \in DOMAIN TerminalWords }

\* C16: count_clauses raises nothing and returns counts that are not
\* negative, with total = terminal + embedded; terminal is counted on the
\* jamo text, embedded on the text as it is: the determiners followed, after
\* optional whitespace, by a head noun.
C16_Clauses ==
  /\ pc # "raised"
  /\ pc = "counted" =>
       \A txt \in {ClauseText(content)} :
         /\ counts.terminal >= 0
         /\ counts.embedded >= 0
         /\ counts.total = counts.terminal + counts.embedded
         /\ counts.embedded = Cardinality(EmbeddedMarks(txt))
         /\ counts.terminal =
              Cardinality(TerminalMatches(decompose_hangul(txt)))

\* <p>, ha-neun geos-eul and han-da. have been counted: one clause of each
\* kind behind a tag
C16_Witness ==
  /\ pc = "counted"
  /\ content = <<60, 112, 62>> \o <<54616, 45716, 32, 44163, 51012>>
                 \o <<54620, 45796, 46>>
  /\ counts = [terminal |-> 1, embedded |-> 1, total |-> 2]

\* the endings da, eo, a, ji, ne, yo, ni-da, ja, ra and nya, ni
DeclarativeEndings ==
  { <<45796>>, <<50612>>, <<50500>>, <<51648>>, <<45348>>, <<50836>>,
    <<45768, 45796>>, <<51088>>, <<46972>> }
InterrogativeEndings == { <<45264>>, <<45768>> }

\* the sentence marks of t that follow the syllables w
MarksAfter(t, w) ==
  { k \in SentenceMarks(t) :
      k > Len(w) /\ SubSeq(t, k - Len(w), k - 1) = w }

\* where w occurs in t
Places(t, w) == { at \in 0..(Len(t) - Len(w)) : OccursAt(w, t, at) }

\* C17: the terminal count is the sum of the matches of the 11 sentence-final
\* templates in the jamo text; a text whose sentence ends are one han-da. and
\* one geos-i-da. and that has one ha-neun geos-eul gives terminal 2,
\* embedded >= 1 and total >= 3.
C17_Terminal ==
  /\ Len(terminal_patterns) = 11
  /\ UNION {TerminalWords[m] : m \in DOMAIN TerminalWords}
       = {decompose_hangul(e) \o <<mark>> :
            e \in DeclarativeEndings, mark \in {46, 33}}
         \cup {decompose_hangul(e) \o <<63>> : e \in InterrogativeEndings}
  /\ pc = "counted" =>
       \A txt \in {ClauseText(content)} :
         /\ counts.terminal =
              Cardinality(TerminalMatches(decompose_hangul(txt)))
         /\ ( /\ Cardinality(SentenceMarks(txt)) = 2
              /\ Cardinality(MarksAfter(txt, <<54620, 45796>>)) = 1
              /\ Cardinality(MarksAfter(txt, <<44163, 51060, 45796>>)) = 1
              /\ Cardinality(Places(txt, <<54616, 45716, 32, 44163, 51012>>)) = 1 )
            => /\ counts.terminal = 2
               /\ counts.embedded >= 1
               /\ counts.total >= 3

\* han-da. ha-neun geos-eul geos-i-da. has been counted
C17_Witness ==
  /\ pc = "counted"
  /\ content = <<54620, 45796, 46>> \o <<54616, 45716, 32, 44163, 51012>>
                 \o <<44163, 51060, 45796, 46>>
  /\ counts.terminal = 2
  /\ counts.total >= 3

\* C20: the terminal count never exceeds the number of periods, exclamation
\* marks and question marks of the text.
C20_AtMostMarks ==
  pc = "counted" =>
    counts.terminal <= Cardinality(SentenceMarks(ClauseText(content)))

\* what a call returns when it runs alone
Alone(call) ==
  CASE call.op = "decompose" -> decompose_hangul(call.arg)
    [] call.op = "compose" -> compose_jamo(call.arg)
    [] call.op = "classify" ->
         RegisterSection(LevelCounts(decompose_hangul(get_text(call.arg))))
    [] call.op = "count" -> count_clauses(call.arg)
    [] call.op = "validate" -> validate_ratio(call.arg[1], call.arg[2])

AloneResults == [call \in Calls |-> Alone(call)]

\* C18: the calls share no mutable state: the module-level tables and
\* constants are never written, and under every interleaving a call that has
\* returned has returned what it returns when it runs alone.
C18_Independent ==
  /\ tables = ModuleTables
  /\ \A c \in DOMAIN frames :
       frames[c].pc = "done" =>
         frames[c].ret =
           AloneResults[[op |-> frames[c].op, arg |-> frames[c].arg]]

\* two callers have run decompose_hangul on different texts at the same
\* time, and both have returned
C18_Witness ==
  /\ pc = "calls"
  /\ \A c \in DOMAIN frames : frames[c].pc = "done"
  /\ \E c \in DOMAIN frames : \E d \in DOMAIN frames :
       /\ frames[c].op = "decompose"
       /\ frames[d].op = "decompose"
       /\ frames[c].arg # frames[d].arg
       /\ frames[c].ret # frames[d].ret

----------------------------------------------------------------------------
(* The corrective action of validate_ratio *)

\* C21: whenever validate_ratio returns FAIL for phrase_count > 0 and
\* clause_count >= 0, the number of phrases its action names, to add above
\* 2.3 or to remove below 1.7, is at least 1.
C21_AtLeastOne ==
  ( /\ pc = "validated"
    /\ phrase_count > 0
    /\ clause_count >= 0
    /\ validation.message = "fail" )
    => validation.action.amount >= 1

\* the caller does what the action of a FAIL says: it adds, or removes, the
\* number of phrases the action names, and keeps the clauses
ApplyAction ==
  /\ pc = "validated"
  /\ validation.message = "fail"
  /\ phrase_count' =
       IF validation.action.kind = "add"
       THEN phrase_count + validation.action.amount
       ELSE phrase_count - validation.action.amount
  /\ pc' = "revalidate"
  /\ UNCHANGED <<clause_count, validation, codecVars, auditVars, clauseVars,
                 callVars, lateVars>>

\* the call of validate_ratio on the counts after the correction
Revalidate ==
  /\ pc = "revalidate"
  /\ IF DivisionRaises(clause_count, phrase_count)
     THEN /\ pc' = "raised"
          /\ UNCHANGED validation
     ELSE /\ pc' = "revalidated"
          /\ validation' = validate_ratio(clause_count, phrase_count)
  /\ UNCHANGED <<clause_count, phrase_count, codecVars, auditVars,
                 clauseVars, callVars, lateVars>>

NextFollow == ValidateRatio \/ ApplyAction \/ Revalidate

SpecFollow == InitRatio /\ [][NextFollow]_vars

\* C22: following the action of a FAIL with phrase_count > 0 and
\* clause_count >= 0 converges in one step: the corrected phrase count is
\* floor(clause_count / 2), it is positive, and validate_ratio returns PASS
\* for it.
C22_Converges ==
  (pc = "revalidated" /\ clause_count >= 0) =>
    /\ phrase_count = clause_count \div 2
    /\ phrase_count > 0
    /\ validation.pass

----------------------------------------------------------------------------
(* expert_scrutinizer.py: the verdict of _validate_clause_phrase_ratio *)

\* target_ratio = 2.0 and tolerance = 0.3, in tenths
target_ratio == 20
tolerance == 3

\* if llm_phrase_count > 0: ratio = total_clause / llm_phrase_count
\* else: ratio = float('inf'); the pair with denominator 0 is inf
VerdictRatio(total_clause, llm_phrase_count) ==
  IF llm_phrase_count > 0
  THEN [num |-> total_clause, den |-> llm_phrase_count]
  ELSE [num |-> 1, den |-> 0]

\* target_ratio - tolerance <= ratio <= target_ratio + tolerance; inf is
\* above every double
VerdictInBand(ratio) ==
  /\ ratio.den # 0
  /\ (target_ratio - tolerance) * ratio.den <= 10 * ratio.num
  /\ 10 * ratio.num <= (target_ratio + tolerance) * ratio.den

\* ratio > target_ratio + tolerance
VerdictAbove(ratio) ==
  \/ ratio.den = 0
  \/ 10 * ratio.num > (target_ratio + tolerance) * ratio.den

\* int(total_clause / target_ratio)
VerdictIdeal(total_clause) ==
  IF total_clause >= 0 THEN (10 * total_clause) \div target_ratio
  ELSE -((10 * (-total_clause)) \div target_ratio)

\* the verdict lines of the report: [PASS], or [FAIL] with the instruction to
\* add needed_phrases or to remove excess_phrases
ClausePhraseVerdict(total_clause, llm_phrase_count) ==
  LET ratio == VerdictRatio(total_clause, llm_phrase_count)
  IN  IF VerdictInBand(ratio)
      THEN [kind |-> "none", amount |-> 0]
      ELSE IF VerdictAbove(ratio)
      THEN [kind |-> "add",
            amount |-> VerdictIdeal(total_clause) - llm_phrase_count]
      ELSE [kind |-> "reduce",
            amount |-> llm_phrase_count - VerdictIdeal(total_clause)]

\* the verdict of _validate_clause_phrase_ratio for a text of clause_count
\* clauses and the phrase count validate_ratio was called with
VerdictLogic ==
  /\ pc \in {"validated", "raised"}
  /\ verdict' = ClausePhraseVerdict(clause_count, phrase_count)
  /\ pc' = "compared"
  /\ UNCHANGED <<ratioVars, codecVars, auditVars, clauseVars, callVars,
                 recount, vr_jamo, back, tailVars>>

NextVerdict == ValidateRatio \/ VerdictLogic

SpecVerdict == InitRatio /\ [][NextVerdict]_vars

\* C23: for every clause count c >= 0 and every integer phrase count p,
\* positive, zero or negative, validate_ratio(c, p) and the verdict of
\* _validate_clause_phrase_ratio are of the same kind (PASS, FAIL add n, FAIL
\* remove n, invalid input) with the same n.
C23_Agree ==
  (pc = "compared" /\ clause_count >= 0) => validation.action = verdict

----------------------------------------------------------------------------
(* The duplicated copies of the jamo and clause logic *)

\* terminal_patterns of _validate_clause_phrase_ratio
CP_terminal_patterns ==
  << <<Lit(<<12599, 12623>>), Cls({46, 33})>>,   \* ㄷㅏ[\.!]
     <<Lit(<<12615, 12627>>), Cls({46, 33})>>,   \* ㅇㅓ[\.!]
     <<Lit(<<12615, 12623>>), Cls({46, 33})>>,   \* ㅇㅏ[\.!]
     <<Lit(<<12616, 12643>>), Cls({46, 33})>>,   \* ㅈㅣ[\.!]
     <<Lit(<<12596, 12628>>), Cls({46, 33})>>,   \* ㄴㅔ[\.!]
     <<Lit(<<12615, 12635>>), Cls({46, 33})>>,   \* ㅇㅛ[\.!]
     <<Lit(<<12596, 12643, 12599, 12623>>), Cls({46, 33})>>,   \* ㄴㅣㄷㅏ[\.!]
     <<Lit(<<12596, 12625>>), Cls({63})>>,   \* ㄴㅑ[\?]
     <<Lit(<<12596, 12643>>), Cls({63})>>,   \* ㄴㅣ[\?]
     <<Lit(<<12616, 12623>>), Cls({46, 33})>>,   \* ㅈㅏ[\.!]
     <<Lit(<<12601, 12623>>), Cls({46, 33})>> >>   \* ㄹㅏ[\.!]

\* (?:는|ㄴ|은|ㄹ|을|던)\s*(?:것|거|때|곳|이|수|줄|법|리)
CP_embedded_pattern ==
  <<Alt(<<<<45716>>, <<12596>>, <<51008>>, <<12601>>, <<51012>>, <<45912>>>>), Star(WHITESPACE), Alt(<<<<44163>>, <<44144>>, <<46412>>, <<44275>>, <<51060>>, <<49688>>, <<51460>>, <<48277>>, <<47532>>>>)>>

\* _validate_clause_phrase_ratio(content, llm_phrase_count): the clause
\* counts of its report and its verdict
validate_clause_phrase_ratio(c, llm_phrase_count) ==
  LET text_content == get_text(c)
      jamo_text == decompose_hangul(text_content)
      terminal_count == CountMatches(CP_terminal_patterns, jamo_text)
      embedded_count == Len(findall(CP_embedded_pattern, text_content))
      total_clause == terminal_count + embedded_count
  IN  [ clauses |-> [terminal |-> terminal_count,
                     embedded |-> embedded_count,
                     total |-> total_clause],
        verdict |-> ClausePhraseVerdict(total_clause, llm_phrase_count) ]

\* most pieces of a text handed to all the copies
MaxCopyPieces == 2

\* han-da. / geos-i-da. / ha-neun geos-eul / hab-ni-da. / ha-nya? / a space
CopyPieces ==
  { <<54620, 45796, 46>>,
    <<44163, 51060, 45796, 46>>,
    <<54616, 45716, 32, 44163, 51012>>,
    <<54633, 45768, 45796, 46>>,
    <<54616, 45264, 63>>,
    <<32>> }

RECURSIVE CopyTexts(_)
CopyTexts(n) ==
  IF n = 0 THEN {<<>>}
  ELSE LET shorter == CopyTexts(n - 1)
       IN  shorter \cup {t \o piece : t \in shorter, piece \in CopyPieces}

\* one syllable for every onset, for every vowel and for every coda, and the
\* characters next to the two ends of the syllable block
CopyProbes ==
  {<<44032 + 588 * cho>> : cho \in 0..18}
    \cup {<<44032 + 28 * jung>> : jung \in 0..20}
    \cup {<<44032 + jong>> : jong \in 0..27}
    \cup {<<44031>>, <<55203>>, <<55204>>}

CopyContents == CopyTexts(MaxCopyPieces) \cup CopyProbes

InitCopies ==
  /\ pc = "audit"
  /\ content \in CopyContents
  /\ clauses = NoClauses
  /\ level_counts = <<>>
  /\ total_endings = 0
  /\ primary = NoPrimary
  /\ errors = 0
  /\ report = <<>>
  /\ CodecIdle
  /\ MoreIdle

\* count_clauses(content), after the audit of the same content
CountCopy ==
  /\ pc \in {"audited", "raised"}
  /\ counts' = count_clauses(content)
  /\ pc' = "copy counted"
  /\ UNCHANGED <<codecVars, auditVars, ratioVars, callVars, lateVars>>

\* _validate_clause_phrase_ratio(content, llm_phrase_count)
RatioCopy ==
  /\ pc = "copy counted"
  /\ \E llm_phrase_count \in (-MaxBelow)..MaxBelow :
     \E r \in {validate_clause_phrase_ratio(content, llm_phrase_count)} :
       /\ recount' = r.clauses
       /\ verdict' = r.verdict
  /\ pc' = "copy validated"
  /\ UNCHANGED <<codecVars, auditVars, ratioVars, clauseVars, callVars,
                 vr_jamo, back, tailVars>>

\* decompose_hangul(content) of expert_scrutinizer.py and of validate_ratio.py
DecomposeCopies ==
  /\ pc = "copy validated"
  /\ text' = content
  /\ jamo_str' = decompose_hangul(content)
  /\ vr_jamo' = VR_decompose_hangul(content)
  /\ pc' = "copied"
  /\ UNCHANGED <<pos, i, result, reads, composed, auditVars, ratioVars,
                 clauseVars, callVars, verdict, recount, back, tailVars>>

NextCopies == Audit \/ CountCopy \/ RatioCopy \/ DecomposeCopies

SpecCopies == InitCopies /\ [][NextCopies]_vars

\* C24: the duplicated copies compute the same thing: the two copies of
\* decompose_hangul return the same string for every input, and the clause
\* counting of count_clauses, of _audit_linguistic_quality and of
\* _validate_clause_phrase_ratio returns the same terminal, embedded and
\* total counts for the same markup-free text.
C24_SameCopies ==
  /\ pc = "copied" => vr_jamo = jamo_str
  /\ pc \in {"copy validated", "copied"} =>
       /\ counts = clauses
       /\ recount = clauses

\* hab-ni-da. ha-neun geos-eul has gone through all the copies: two terminal
\* clauses and one embedded clause in each, and the same jamo string
C24_Witness ==
  /\ pc = "copied"
  /\ content = <<54633, 45768, 45796, 46>> \o <<54616, 45716, 32, 44163, 51012>>
  /\ counts = [terminal |-> 2, embedded |-> 1, total |-> 3]
  /\ recount = counts
  /\ clauses = counts
  /\ Len(jamo_str) > Len(content)
  /\ vr_jamo = jamo_str

----------------------------------------------------------------------------
(* A caller that composes a jamo string and decomposes the result again *)

\* most units of a hand-made jamo string
MaxJamo == 4

\* n (an onset and a coda), tt (an onset only), ya (a vowel), gs (a coda
\* only) and the letter a
JamoAlphabet == {12596, 12600, 12625, 12595, 97}

RECURSIVE JamoStrings(_)
JamoStrings(n) ==
  IF n = 0 THEN {<<>>}
  ELSE LET shorter == JamoStrings(n - 1)
       IN  shorter \cup {j \o <<u>> : j \in shorter, u \in JamoAlphabet}

\* compose_jamo is about to be called with a jamo string made by hand
InitJamo ==
  /\ pc = "decomposed"
  /\ jamo_str \in JamoStrings(MaxJamo)
  /\ text = <<>>
  /\ pos = 0
  /\ i = 0
  /\ result = <<>>
  /\ reads = {}
  /\ composed = <<>>
  /\ AuditIdle
  /\ MoreIdle

\* decompose_hangul(composed), composed being what compose_jamo returned
DecomposeBack ==
  /\ pc = "done"
  /\ back' = decompose_hangul(composed)
  /\ pc' = "back"
  /\ UNCHANGED <<codecVars, auditVars, ratioVars, clauseVars, callVars,
                 verdict, recount, vr_jamo, tailVars>>

NextJamo == ComposeStart \/ ComposeLoop \/ ComposeReturn \/ DecomposeBack

SpecJamo == InitJamo /\ [][NextJamo]_vars

\* C25: for every jamo string without a character of U+AC00..U+D7A3,
\* decompose_hangul(compose_jamo(j)) = j: compose may set a syllable boundary
\* the author did not intend, but it loses, adds and reorders no unit.
C25_JamoRoundTrip ==
  pc = "back" =>
    ( (\A k \in 1..Len(jamo_str) : ~IsSyllable(jamo_str[k]))
        => back = jamo_str )

\* n ya n ya, which may be read nyan-ya or nya-nya, was composed into the
\* two syllables nya nya and decomposed into n ya n ya again
C25_Witness ==
  /\ pc = "back"
  /\ jamo_str = <<12596, 12625, 12596, 12625>>
  /\ composed = <<45264, 45264>>
  /\ back = jamo_str

----------------------------------------------------------------------------
(* validate_ratio.py: main, the command line *)

\* t without the white space at its two ends
RECURSIVE StripLeft(_)
StripLeft(t) ==
  IF t # <<>> /\ Head(t) \in WHITESPACE THEN StripLeft(Tail(t)) ELSE t

RECURSIVE StripRight(_)
StripRight(t) ==
  IF t # <<>> /\ t[Len(t)] \in WHITESPACE
  THEN StripRight(SubSeq(t, 1, Len(t) - 1)) ELSE t

IsDigit(ch) == 48 <= ch /\ ch <= 57

\* the digits of a decimal literal: digits, with single underscores between
\* them
IsDigits(d) ==
  /\ d # <<>>
  /\ IsDigit(d[1])
  /\ IsDigit(d[Len(d)])
  /\ \A k \in 1..Len(d) : IsDigit(d[k]) \/ d[k] = 95
  /\ \A k \in 1..(Len(d) - 1) : ~(d[k] = 95 /\ d[k + 1] = 95)

RECURSIVE DigitsValue(_, _)
DigitsValue(d, acc) ==
  IF d = <<>> THEN acc
  ELSE IF Head(d) = 95 THEN DigitsValue(Tail(d), acc)
  ELSE DigitsValue(Tail(d), 10 * acc + (Head(d) - 48))

\* int(t) of a str: white space around, a sign, decimal digits; ok is FALSE
\* where int raises ValueError
ParseInt(t) ==
  LET u == StripRight(StripLeft(t))
      signed == u # <<>> /\ Head(u) \in {43, 45}
      d == IF signed THEN Tail(u) ELSE u
  IN  IF IsDigits(d)
      THEN [ok |-> TRUE,
            value |-> IF signed /\ Head(u) = 45
                      THEN -DigitsValue(d, 0) ELSE DigitsValue(d, 0)]
      ELSE [ok |-> FALSE, value |-> 0]

\* an exit status that does not look at the result
ExitStatus_Zero(pass) == 0

\* sys.exit(0 if result['pass'] else 1)
ExitStatus(pass) == IF pass THEN 0 ELSE 1

\* the paths the command line is given: no such file, a directory, a file
\* that is not UTF-8, an empty file, and files of 1, 2 and 4 clauses
\* (<p>han-da.</p>, <p>hab-ni-da.</p>, hab-ni-da. ha-neun geos-eul han-da.)
Disk ==
  [ path \in {"nofile.html", "adir", "cp949.html", "empty.html", "one.html",
              "two.html", "four.txt"} |->
      CASE path = "nofile.html" ->
             [exists |-> FALSE, readable |-> FALSE, text |-> <<>>]
        [] path = "adir" ->
             [exists |-> TRUE, readable |-> FALSE, text |-> <<>>]
        [] path = "cp949.html" ->
             [exists |-> TRUE, readable |-> FALSE, text |-> <<>>]
        [] path = "empty.html" ->
             [exists |-> TRUE, readable |-> TRUE, text |-> <<>>]
        [] path = "one.html" ->
             [exists |-> TRUE, readable |-> TRUE,
              text |-> <<60, 112, 62, 54620, 45796, 46, 60, 47, 112, 62>>]
        [] path = "two.html" ->
             [exists |-> TRUE, readable |-> TRUE,
              text |-> <<60, 112, 62, 54633, 45768, 45796, 46,
                         60, 47, 112, 62>>]
        [] path = "four.txt" ->
             [exists |-> TRUE, readable |-> TRUE,
              text |-> <<54633, 45768, 45796, 46, 32,
                         54616, 45716, 32, 44163, 51012, 32,
                         54620, 45796, 46>>] ]

\* the second argument: 1, 2, 0, -1, 12, x, 1.5, the empty string, 1 between
\* spaces, +1 and 1_0
PhraseArgs ==
  { <<49>>, <<50>>, <<48>>, <<45, 49>>, <<49, 50>>, <<120>>, <<49, 46, 53>>,
    <<>>, <<32, 49, 32>>, <<43, 49>>, <<49, 95, 48>> }

\* most entries of sys.argv, the name of the script included
MaxArgc == 4

InitCli ==
  /\ pc = "cli"
  /\ \E argc \in 1..MaxArgc :
       argv \in [ argc : {argc},
                  html_path : IF argc >= 2 THEN DOMAIN Disk ELSE {""},
                  phrase : IF argc >= 3 THEN PhraseArgs ELSE {<<>>} ]
  /\ exit_code = NoExit
  /\ verdict = NoVerdict
  /\ recount = NoClauses
  /\ vr_jamo = <<>>
  /\ back = <<>>
  /\ scores = <<>>
  /\ selected = NoRegister
  /\ RunIdle
  /\ CodecIdle
  /\ AuditIdle
  /\ RatioIdle
  /\ ClauseIdle
  /\ CallIdle

\* sys.exit(status)
Exit(status) ==
  /\ exit_code' = status
  /\ pc' = "exited"

\* if len(sys.argv) < 2: usage, sys.exit(1)
CliUsage ==
  /\ pc = "cli"
  /\ IF argv.argc < 2
     THEN Exit(1)
     ELSE pc' = "cli exists" /\ UNCHANGED exit_code
  /\ UNCHANGED <<argv, codecVars, auditVars, ratioVars, clauseVars, callVars,
                 verdict, recount, vr_jamo, back, selectVars,
                 runVars>>

\* if not os.path.exists(html_path): error, sys.exit(1)
CliExists ==
  /\ pc = "cli exists"
  /\ IF ~Disk[argv.html_path].exists
     THEN Exit(1)
     ELSE pc' = "cli count" /\ UNCHANGED exit_code
  /\ UNCHANGED <<argv, codecVars, auditVars, ratioVars, clauseVars, callVars,
                 verdict, recount, vr_jamo, back,
                 selectVars, runVars>>

\* clauses = count_clauses_from_file(html_path); open() or read() raises for
\* a directory and for bytes that are not UTF-8, nothing catches it, and the
\* interpreter ends with status 1
CliCount ==
  /\ pc = "cli count"
  /\ IF ~Disk[argv.html_path].readable
     THEN /\ Exit(1)
          /\ UNCHANGED <<content, counts>>
     ELSE /\ pc' = "cli mode"
          /\ content' = Disk[argv.html_path].text
          /\ counts' = count_clauses(Disk[argv.html_path].text)
          /\ UNCHANGED exit_code
  /\ UNCHANGED <<argv, codecVars, clauses, level_counts, total_endings,
                 primary, errors, report, ratioVars, callVars,
                 verdict, recount, vr_jamo, back,
                 selectVars, runVars>>

\* if len(sys.argv) < 3: print(generate_clause_report(html_path)), sys.exit(0)
CliReport ==
  /\ pc = "cli mode"
  /\ argv.argc < 3
  /\ Exit(0)
  /\ UNCHANGED <<argv, codecVars, auditVars, ratioVars, clauseVars, callVars,
                 verdict, recount, vr_jamo, back,
                 selectVars, runVars>>

\* phrase_count = int(sys.argv[2]); except ValueError: error, sys.exit(1)
CliParse ==
  /\ pc = "cli mode"
  /\ ~(argv.argc < 3)
  /\ \E parsed \in {ParseInt(argv.phrase)} :
       IF ~parsed.ok
       THEN /\ Exit(1)
            /\ UNCHANGED phrase_count
       ELSE /\ pc' = "cli validate"
            /\ phrase_count' = parsed.value
            /\ UNCHANGED exit_code
  /\ UNCHANGED <<argv, codecVars, auditVars, clause_count, validation,
                 clauseVars, callVars, verdict, recount, vr_jamo, back,
                 selectVars, runVars>>

\* result = validate_ratio(clauses['total'], phrase_count);
\* sys.exit(0 if result['pass'] else 1)
CliValidate ==
  /\ pc = "cli validate"
  /\ clause_count' = counts.total
  /\ \E res \in {validate_ratio(counts.total, phrase_count)} :
       /\ validation' = res
       /\ Exit(ExitStatus(res.pass))
  /\ UNCHANGED <<argv, phrase_count, codecVars, auditVars, clauseVars,
                 callVars, verdict, recount, vr_jamo, back,
                 selectVars, runVars>>

NextCli ==
  \/ CliUsage
  \/ CliExists
  \/ CliCount
  \/ CliReport
  \/ CliParse
  \/ CliValidate

SpecCli == InitCli /\ [][NextCli]_vars

\* the second arguments that are integers, and the integers they denote
NumeralOf ==
  [ t \in { <<49>>, <<50>>, <<48>>, <<45, 49>>, <<49, 50>>, <<32, 49, 32>>,
            <<43, 49>>, <<49, 95, 48>> } |->
      CASE t = <<49>> -> 1
        [] t = <<50>> -> 2
        [] t = <<48>> -> 0
        [] t = <<45, 49>> -> -1
        [] t = <<49, 50>> -> 12
        [] t = <<32, 49, 32>> -> 1
        [] t = <<43, 49>> -> 1
        [] t = <<49, 95, 48>> -> 10 ]

\* the clauses of the files that can be read
ClausesOnDisk ==
  [ path \in {"empty.html", "one.html", "two.html", "four.txt"} |->
      CASE path = "empty.html" -> 0
        [] path = "one.html" -> 1
        [] path = "two.html" -> 2
        [] path = "four.txt" -> 4 ]

\* a file argument is given and the file exists
FileGiven == argv.argc >= 2 /\ Disk[argv.html_path].exists

\* a file argument is given, the file exists and it can be read as UTF-8
FileRead == FileGiven /\ Disk[argv.html_path].readable

\* the process has one exit status, 0 or 1, when it has ended and none before
OneExitCode ==
  /\ pc = "exited" <=> exit_code \in {0, 1}
  /\ pc # "exited" <=> exit_code = NoExit

\* status 1 without a file argument and for a file that does not exist
ExitNoFile ==
  pc = "exited" =>
    /\ argv.argc < 2 => exit_code = 1
    /\ (argv.argc >= 2 /\ ~Disk[argv.html_path].exists) => exit_code = 1

\* with a phrase count: status 1 if it is no integer, else 0 iff
\* validate_ratio passes the clauses of the file and that count
ExitPhrase ==
  (pc = "exited" /\ FileRead /\ argv.argc >= 3) =>
    IF argv.phrase \in DOMAIN NumeralOf
    THEN /\ validation.clause_count = ClausesOnDisk[argv.html_path]
         /\ validation.phrase_count = NumeralOf[argv.phrase]
         /\ exit_code = 0 <=> validation.pass
         /\ exit_code = 1 <=> ~validation.pass
         /\ NumeralOf[argv.phrase] <= 0 => exit_code = 1
    ELSE /\ exit_code = 1
         /\ validation = NoValidation

\* validate_ratio has not run unless the existence check has succeeded
CheckedFirst ==
  /\ pc \in {"cli", "cli exists"} => validation = NoValidation
  /\ validation # NoValidation => FileGiven

\* C26 as stated: the command line ends in exactly one exit code: 1 without a
\* file argument, for a file that does not exist and for a phrase count that
\* is no integer; 0 when only a file is given; with a phrase count 0 iff
\* validate_ratio passes and 1 otherwise; the ratio check never runs before
\* the existence check has succeeded.
C26_ExitCodesAsStated ==
  /\ OneExitCode
  /\ ExitNoFile
  /\ (pc = "exited" /\ FileGiven /\ argv.argc = 2) => exit_code = 0
  /\ ExitPhrase
  /\ CheckedFirst

\* C26: the command line ends in exactly one exit code: 1 without a file
\* argument, for a file that does not exist, for a file that exists and
\* cannot be read as UTF-8 text, and for a phrase count that is no integer;
\* 0 when only a file is given and it can be read; with a phrase count and a
\* file that can be read 0 iff validate_ratio passes and 1 otherwise; the
\* ratio check never runs before the existence check has succeeded.
C26_ExitCodes ==
  /\ OneExitCode
  /\ ExitNoFile
  /\ (pc = "exited" /\ FileGiven /\ ~FileRead) =>
       (exit_code = 1 /\ validation = NoValidation)
  /\ (pc = "exited" /\ FileRead /\ argv.argc = 2) => exit_code = 0
  /\ ExitPhrase
  /\ CheckedFirst

\* the command line was given only a file that is not UTF-8, and has ended
\* with status 1
C26_Witness ==
  /\ pc = "exited"
  /\ argv.argc = 2
  /\ argv.html_path = "cp949.html"
  /\ exit_code = 1
  /\ validation = NoValidation

----------------------------------------------------------------------------
(* one_click_main.py: auto_select_speech_register *)

\* the registers in the order of the dict, each with its key as level
SPEECH_REGISTERS ==
  << \* 해라체: 학술 전문 논문 분석 연구 메커니즘
     [ name |-> "haerache", level |-> 1,
       keywords |-> << <<54617, 49696>>, <<51204, 47928>>, <<45436, 47928>>,
                      <<48516, 49437>>, <<50672, 44396>>,
                      <<47700, 52964, 45768, 51608>> >> ],
     \* 해체: 일상 친근 캐주얼 경험담 후기
     [ name |-> "haeche", level |-> 2,
       keywords |-> << <<51068, 49345>>, <<52828, 44540>>,
                      <<52880, 51452, 50620>>,
                      <<44221, 54744, 45812>>, <<54980, 44592>> >> ],
     \* 하게체: 복고 고전 역사 전통
     [ name |-> "hageche", level |-> 3,
       keywords |-> << <<48373, 44256>>, <<44256, 51204>>, <<50669, 49324>>,
                      <<51204, 53685>> >> ],
     \* 하오체: 사극 역사적 격식
     [ name |-> "haoche", level |-> 4,
       keywords |-> << <<49324, 44537>>, <<50669, 49324, 51201>>,
                      <<44201, 49885>> >> ],
     \* 해요체: 친절 안내 튜토리얼 가이드 설명
     [ name |-> "haeyoche", level |-> 5,
       keywords |-> << <<52828, 51208>>, <<50504, 45236>>,
                      <<53916, 53664, 47532, 50620>>,
                      <<44032, 51060, 46300>>, <<49444, 47749>> >> ],
     \* 하십시오체: 공식 비즈니스 기업 보고서 발표
     [ name |-> "hasipsioche", level |-> 6,
       keywords |-> << <<44277, 49885>>, <<48708, 51592, 45768, 49828>>,
                      <<44592, 50629>>,
                      <<48372, 44256, 49436>>, <<48156, 54364>> >> ] >>

\* ch.lower() of an ASCII capital; Hangul, digits and spaces have no case
LowerChar(ch) == IF 65 <= ch /\ ch <= 90 THEN ch + 32 ELSE ch

\* content.lower()
Lower(c) == [k \in 1..Len(c) |-> LowerChar(c[k])]

\* score: the keywords of one register with "keyword in content_lower"
RECURSIVE ScoreFrom(_, _, _)
ScoreFrom(keywords, s, k) ==
  IF k > Len(keywords) THEN 0
  ELSE (IF Contains(s, keywords[k]) THEN 1 ELSE 0)
         + ScoreFrom(keywords, s, k + 1)

\* the dict scores, as the list of its items in insertion order
ScoresOf(content_lower) ==
  [ n \in 1..Len(SPEECH_REGISTERS) |->
      [ level |-> SPEECH_REGISTERS[n].level,
        score |-> ScoreFrom(SPEECH_REGISTERS[n].keywords, content_lower, 1) ] ]

\* a comparison that lets a later register take over on an equal score
Better_OrEqual(score, best_score) == score >= best_score

\* if score > best_score:
Better(score, best_score) == score > best_score

\* scores.get(1, 0)
ScoreOfLevel1(sc) ==
  IF \E n \in 1..Len(sc) : sc[n].level = 1
  THEN sc[CHOOSE n \in 1..Len(sc) : sc[n].level = 1].score
  ELSE 0

\* for level, score in scores.items(): from item k on, with the best so far
RECURSIVE BestFrom(_, _, _, _)
BestFrom(sc, k, best_level, best_score) ==
  IF k > Len(sc) THEN best_level
  ELSE IF Better(sc[k].score, best_score)
  THEN BestFrom(sc, k + 1, sc[k].level, sc[k].score)
  ELSE BestFrom(sc, k + 1, best_level, best_score)

\* SPEECH_REGISTERS[best_level]
RegisterOf(best_level) ==
  LET r == SPEECH_REGISTERS[CHOOSE n \in 1..Len(SPEECH_REGISTERS) :
                              SPEECH_REGISTERS[n].level = best_level]
  IN  [name |-> r.name, level |-> r.level]

\* most pieces of a content handed to auto_select_speech_register
MaxSelectPieces == 3

\* hag-sul and bun-seog (level 1), il-sang (2), yeog-sa-jeog (3 and 4),
\* gyeog-sig (4), an-nae (5), gong-sig and gi-eob (6), and the capital A
SelectPieces ==
  { <<54617, 49696>>, <<48516, 49437>>, <<51068, 49345>>,
    <<50669, 49324, 51201>>, <<44201, 49885>>, <<50504, 45236>>,
    <<44277, 49885>>, <<44592, 50629>>, <<65>> }

RECURSIVE SelectTexts(_)
SelectTexts(n) ==
  IF n = 0 THEN {<<>>}
  ELSE LET shorter == SelectTexts(n - 1)
       IN  shorter \cup {t \o piece : t \in shorter, piece \in SelectPieces}

InitSelect ==
  /\ pc = "select"
  /\ content \in SelectTexts(MaxSelectPieces)
  /\ clauses = NoClauses
  /\ level_counts = <<>>
  /\ total_endings = 0
  /\ primary = NoPrimary
  /\ errors = 0
  /\ report = <<>>
  /\ CodecIdle
  /\ MoreIdle

\* content_lower = content.lower() and the loop that fills scores
ScoreKeywords ==
  /\ pc = "select"
  /\ scores' = ScoresOf(Lower(content))
  /\ pc' = "scored"
  /\ UNCHANGED <<selected, codecVars, auditVars, ratioVars, clauseVars,
                 callVars, verdict, recount, vr_jamo, back, cliVars,
                 runVars>>

\* best_level = 1, best_score = scores.get(1, 0), the loop over the items of
\* scores, and return SPEECH_REGISTERS[best_level]
SelectBest ==
  /\ pc = "scored"
  /\ selected' = RegisterOf(BestFrom(scores, 1, 1, ScoreOfLevel1(scores)))
  /\ pc' = "selected"
  /\ UNCHANGED <<scores, codecVars, auditVars, ratioVars, clauseVars,
                 callVars, verdict, recount, vr_jamo, back, cliVars,
                 runVars>>

NextSelect == ScoreKeywords \/ SelectBest

SpecSelect == InitSelect /\ [][NextSelect]_vars

\* the keywords of the register of level l, from the table of the source
KeywordsOf(l) ==
  LET r == SPEECH_REGISTERS[CHOOSE n \in 1..Len(SPEECH_REGISTERS) :
                              SPEECH_REGISTERS[n].level = l]
  IN  {r.keywords[k] : k \in 1..Len(r.keywords)}

\* the keyword-match score of level l: its keywords that occur in content
MatchScore(l) ==
  Cardinality({w \in KeywordsOf(l) : Places(content, w) # {}})

\* C27: auto_select_speech_register returns the register with the highest
\* keyword-match score; when no register scores strictly higher than level
\* 1, all scores 0 included, it returns level 1 (haerache); when several
\* registers other than level 1 share the highest score it returns the one
\* with the lowest level number.
C27_Selection ==
  pc = "selected" =>
    \A top \in {CHOOSE m \in {MatchScore(l) : l \in 1..6} :
                  \A l \in 1..6 : MatchScore(l) <= m} :
      /\ selected.level \in 1..6
      /\ MatchScore(selected.level) = top
      /\ MatchScore(1) = top => selected = [name |-> "haerache", level |-> 1]
      /\ MatchScore(1) < top =>
           \A l \in 2..6 : MatchScore(l) = top => selected.level <= l

\* yeog-sa-jeog an-nae: levels 3, 4 and 5 share the highest score 1, level 1
\* scores 0, and the register of level 3 was returned
C27_Witness ==
  /\ pc = "selected"
  /\ content = <<50669, 49324, 51201>> \o <<50504, 45236>>
  /\ MatchScore(1) = 0
  /\ MatchScore(3) = 1 /\ MatchScore(4) = 1 /\ MatchScore(5) = 1
  /\ selected = [name |-> "hageche", level |-> 3]

----------------------------------------------------------------------------
(* one_click_main.py: validate_prerequisites and main *)

MAX_RETRIES == 5

\* f.endswith(suffix)
EndsWith(f, suffix) ==
  /\ Len(f) >= Len(suffix)
  /\ SubSeq(f, Len(f) - Len(suffix) + 1, Len(f)) = suffix

\* f.replace(old, new), from index k on
RECURSIVE ReplaceFrom(_, _, _, _)
ReplaceFrom(f, old, new, k) ==
  IF k >= Len(f) THEN <<>>
  ELSE IF OccursAt(old, f, k)
  THEN new \o ReplaceFrom(f, old, new, k + Len(old))
  ELSE <<f[k + 1]>> \o ReplaceFrom(f, old, new, k + 1)

\* '.txt' and '.html'
DotTxt == <<46, 116, 120, 116>>
DotHtml == <<46, 104, 116, 109, 108>>

\* files: the entries of INPUT_DIR that end in .txt
TxtFiles(entries) == {f \in entries : EndsWith(f, DotTxt)}

\* html_files: the entries of INPUT_DIR that end in .html
HtmlFiles(entries) == {f \in entries : EndsWith(f, DotHtml)}

\* input_files of validate_prerequisites
InputFiles(entries) ==
  {f \in entries : EndsWith(f, DotTxt) \/ EndsWith(f, DotHtml)}

\* 'final_'
FinalPrefix == <<102, 105, 110, 97, 108, 95>>

\* a loop that goes on to the next attempt after a red report
Breaks_OnGreen(is_red) == ~is_red

\* both branches of 'if "❌" in report' end in break
Breaks(is_red) == TRUE

\* the entries INPUT_DIR may hold: a.txt, e.txt, b.html and c.md
DirEntries ==
  { <<97, 46, 116, 120, 116>>, <<101, 46, 116, 120, 116>>,
    <<98, 46, 104, 116, 109, 108>>, <<99, 46, 109, 100>> }

\* main is about to run.  INPUT_DIR is missing, a plain file or a directory
\* with some entries; its files can be read as UTF-8 or not; the other two
\* directories exist or not and the output file can be written or not.  The
\* retry budget is the one of the source or any smaller positive one
InitMain ==
  /\ pc = "main"
  /\ \E dir \in {"missing", "file", "dir"} :
       fs \in [ input_dir : {dir},
                files : IF dir = "dir" THEN SUBSET DirEntries ELSE {{}},
                readable : BOOLEAN,
                references_dir : BOOLEAN,
                output_dir : BOOLEAN,
                writable : BOOLEAN ]
  /\ max_retries \in 1..MAX_RETRIES
  /\ attempt = 0
  /\ cycles = 0
  /\ red = FALSE
  /\ filename = <<>>
  /\ briefings = 0
  /\ saved = <<>>
  /\ verdict = NoVerdict
  /\ recount = NoClauses
  /\ vr_jamo = <<>>
  /\ back = <<>>
  /\ argv = NoArgv
  /\ exit_code = NoExit
  /\ scores = <<>>
  /\ selected = NoRegister
  /\ CodecIdle
  /\ AuditIdle
  /\ RatioIdle
  /\ ClauseIdle
  /\ CallIdle

RunFrame ==
  UNCHANGED <<codecVars, auditVars, ratioVars, clauseVars, callVars,
              verdict, recount, vr_jamo, back, cliVars, selectVars>>

\* try: validate_prerequisites() except FileNotFoundError: return.
\* os.listdir of a plain file raises NotADirectoryError, which main does not
\* catch
Prerequisites ==
  /\ pc = "main"
  /\ IF fs.input_dir = "missing"
     THEN pc' = "returned" /\ UNCHANGED fs
     ELSE IF fs.input_dir = "file"
     THEN pc' = "crashed" /\ UNCHANGED fs
     ELSE IF InputFiles(fs.files) = {}
     THEN pc' = "returned" /\ UNCHANGED fs
     ELSE /\ pc' = "load"
          /\ fs' = [fs EXCEPT !.references_dir = TRUE, !.output_dir = TRUE]
  /\ UNCHANGED <<max_retries, attempt, cycles, red, filename, briefings,
                 saved>>
  /\ RunFrame

\* lines 291-334: files and html_files, read_input(files[0]), the persona and
\* the speech register, the HTML file or the placeholder, filename.  A file
\* that is not UTF-8 makes read() raise, and nothing catches it.  files[0]
\* and html_files[0] are the first entries in the order of os.listdir, which
\* is arbitrary
LoadInput ==
  /\ pc = "load"
  /\ IF ~fs.readable
     THEN /\ pc' = "crashed"
          /\ UNCHANGED <<filename, attempt>>
     ELSE /\ pc' = "loop"
          /\ attempt' = 1
          /\ IF HtmlFiles(fs.files) # {}
             THEN \E html \in HtmlFiles(fs.files) : filename' = html
             ELSE \E txt \in TxtFiles(fs.files) :
                    filename' = ReplaceFrom(txt, DotTxt, DotHtml, 0)
  /\ UNCHANGED <<fs, max_retries, cycles, red, briefings, saved>>
  /\ RunFrame

\* "for attempt in range(1, MAX_RETRIES + 1)": while the range lasts, one
\* cycle of the four audits, the report, the red or green signal and the
\* break; when the range is used up, the loop ends
ScrutinyCycle ==
  /\ pc = "loop"
  /\ IF attempt <= max_retries
     THEN /\ cycles' = cycles + 1
          /\ \E is_red \in BOOLEAN :
               /\ red' = is_red
               /\ IF Breaks(is_red)
                  THEN pc' = "tags" /\ UNCHANGED attempt
                  ELSE pc' = "loop" /\ attempt' = attempt + 1
     ELSE /\ pc' = "tags"
          /\ UNCHANGED <<attempt, cycles, red>>
  /\ UNCHANGED <<fs, max_retries, filename, briefings, saved>>
  /\ RunFrame

\* tags_briefing = _generate_blog_tags(current_html, persona), printed
TagBriefing ==
  /\ pc = "tags"
  /\ briefings' = briefings + 1
  /\ pc' = "save"
  /\ UNCHANGED <<fs, max_retries, attempt, cycles, red, filename, saved>>
  /\ RunFrame

\* save_output(current_html, f"final_{filename}"); open(path, 'w') raises
\* when the file cannot be written, and nothing catches it
SaveOutput ==
  /\ pc = "save"
  /\ IF fs.writable
     THEN /\ saved' = Append(saved, FinalPrefix \o filename)
          /\ pc' = "complete"
     ELSE /\ pc' = "crashed"
          /\ UNCHANGED saved
  /\ UNCHANGED <<fs, max_retries, attempt, cycles, red, filename, briefings>>
  /\ RunFrame

NextMain ==
  \/ Prerequisites
  \/ LoadInput
  \/ ScrutinyCycle
  \/ TagBriefing
  \/ SaveOutput

SpecMain == InitMain /\ [][NextMain]_vars

\* the run goes on until main returns or an exception ends it
FairMain == SpecMain /\ WF_vars(NextMain)

\* vocabulary of the statements about main
Audited == cycles > 0

SavedNothing == saved = <<>>

SavedFinalOnce == saved = <<FinalPrefix \o filename>>

\* C28 as stated: when the prerequisites fail the run ends with no audit and
\* nothing saved; otherwise the run always comes to its end, and at its end
\* there has been exactly one audit cycle, one tag briefing and one save of
\* final_<filename>, whatever the retry budget and the colour of the report
C28_OneCycleAsStated ==
  /\ [](pc = "returned" => ~Audited /\ briefings = 0 /\ SavedNothing)
  /\ (pc = "load") ~> (pc = "complete")
  /\ [](pc = "complete" => cycles = 1 /\ briefings = 1 /\ SavedFinalOnce)

\* C28, amended: when the prerequisites fail the run ends with no audit and
\* nothing saved; otherwise, provided the input can be read and the output
\* can be written, the run always comes to its end; at its end there has been
\* exactly one audit cycle, one tag briefing and one save of final_<filename>,
\* whatever the retry budget and the colour of the report; a run that an
\* uncaught exception ends has saved nothing, and no run audits twice
C28_OneCycle ==
  /\ [](pc = "returned" => ~Audited /\ briefings = 0 /\ SavedNothing)
  /\ (pc = "load" /\ fs.readable /\ fs.writable) ~> (pc = "complete")
  /\ [](pc = "complete" => cycles = 1 /\ briefings = 1 /\ SavedFinalOnce)
  /\ [](pc = "crashed" =>
          /\ SavedNothing
          /\ fs.input_dir = "file" \/ ~fs.readable \/ ~fs.writable)
  /\ [](cycles <= 1 /\ briefings <= 1)

\* a run over a.txt alone, with the full retry budget and a red report, has
\* ended after one cycle and saved final_a.html
C28_Witness ==
  /\ pc = "complete"
  /\ red
  /\ max_retries = MAX_RETRIES
  /\ cycles = 1
  /\ briefings = 1
  /\ fs.files = {<<97, 46, 116, 120, 116>>}
  /\ saved = << <<102, 105, 110, 97, 108, 95, 97, 46, 104, 116, 109, 108>> >>

=============================================================================
